---- MODULE Spec2Model ----
(***************************************************************************)
(* Solar-irradiance acquisition pipeline of server_radiasi_forecast.       *)
(*                                                                         *)
(* The repository holds three competing back ends, each a Node.js process  *)
(* of its own:                                                             *)
(*   "db"     src/unnamed/part_001  PostgreSQL-backed server with the      *)
(*                                  scheduler (warm-up run + hourly cron)  *)
(*   "server" src/server.js         file-backed server with scrapingCache  *)
(*                                  and activeScraping                     *)
(*   "auto"   src/unnamed/part_002  server with scrapedDataCache and       *)
(*                                  currentScrapingTasks                   *)
(* "adapters" is server.js again, with the browser handle and the steps    *)
(* of its adapters in place of the requests; "store" is part_001 again,    *)
(* its writer and query layer (the statistics and series endpoints) over   *)
(* a history of days;                                                      *)
(* and "synth" applies generateOfflineSolarData of part_001 to inputs      *)
(* drawn from every hour of the day.  The variable program says which of   *)
(* these a behaviour is a run of.  One action is one run-to-completion     *)
(* step of the event loop: from                                            *)
(* the arrival of an event (request, timer, settled I/O promise) to the    *)
(* next await on real I/O.                                                 *)
(*                                                                         *)
(* Numbers: irradiance (ghi, dni, dhi) in units of 1e-8 kWh/m2/day,        *)
(* pv_output and weather values in units of 1e-6, coordinates in units of  *)
(* 1e-5 degree, time in milliseconds.  An optional JavaScript value is a   *)
(* sequence: <<>> for undefined, <<v>> for a present value.                *)
(***************************************************************************)
EXTENDS Integers, Sequences, FiniteSets, TLC

VARIABLES
  program,               \* which back end runs: "db", "server", "auto", "synth"
  now,                   \* Date.now(), ms since local midnight of day 0
  ticks,                 \* clock advances made so far
  seed,                  \* hidden state of Math.random()
  pc,                    \* per task: where its async function is suspended
  req,                   \* per task: request body / trigger data
  cur,                   \* per task: the acquisition it is running
  resp,                  \* per task: HTTP response sent, <<>> if none yet
  idx,                   \* per scheduled run: roster index being acquired
  visited,               \* per task: acquisitions that returned, in order
  isOnline,              \* part_001: let isOnline
  lastSuccessfulScrape,  \* part_001: let lastSuccessfulScrape
  rows,                  \* part_001: table solar_data
  cronFiredAt,           \* part_001: time of the last cron firing
  started,               \* number of acquisitions started so far
  scrapingCache,         \* server.js: let scrapingCache = new Map()
  activeScraping,        \* server.js: let activeScraping = new Set()
  files,                 \* server.js, part_002: data files written
  acquiredAt,            \* per coordinate key: completion times of acquisitions
  scrapedDataCache,      \* part_002: let scrapedDataCache = new Map()
  currentScrapingTasks,  \* part_002: let currentScrapingTasks = new Map()
  saving,                \* part_002: saveScrapedData calls nobody awaits
  synth,                 \* synthesis harness: outputs of generateOfflineSolarData
  answer,                \* the last response of a read endpoint of part_001, with
                         \* the outcome of its store query (storeUp), or of
                         \* POST /api/clear-cache, with the location asked for
  queried,               \* number of such requests answered
  browser,               \* server.js: let browser, <<>> for null
  launched,              \* server.js: browser processes launched and not closed
  pages                  \* server.js: pages open in the browsers

dbVars == <<isOnline, lastSuccessfulScrape, rows, cronFiredAt>>
serverVars == <<scrapingCache, activeScraping, files>>
autoVars == <<scrapedDataCache, currentScrapingTasks, saving>>
synthVars == <<synth>>
queryVars == <<answer, queried>>
browserVars == <<browser, launched, pages>>

vars == <<program, now, ticks, seed, pc, req, cur, resp, idx, visited,
          isOnline, lastSuccessfulScrape, rows, cronFiredAt, started,
          scrapingCache, activeScraping, files, acquiredAt,
          scrapedDataCache, currentScrapingTasks, saving, synth,
          answer, queried, browser, launched, pages>>

----------------------------------------------------------------------------
(* Bounds of the model *)

MaxTicks == 2
MaxSeed == 0
MaxAcquisitions == 2
MaxCronRuns == 1
MaxRequests == 1
MaxCalls == 2
RosterLen == 2
MaxQueries == 1
MaxRetryCalls == 3

----------------------------------------------------------------------------
(* Time *)

HourMs == 3600000
HalfHour == HourMs \div 2
StartHours == {18}

GetHours(t) == (t \div HourMs) % 24

(* Math.random(): a generator with hidden state.  Random gives the value *)
(* drawn in quarters (numerator over 4): the model's generator yields 0  *)
(* and 1/2 in turn.                                                       *)
Random(s) == 2 * s
NextSeed(s) == (s + 1) % 2

----------------------------------------------------------------------------
(* JavaScript optional values and truthiness *)

Undefined == <<>>
Some(v) == <<v>>
Truthy(x) == x # <<>> /\ x[1] # 0

----------------------------------------------------------------------------
(* part_001: roster *)

DEFAULT_LOCATIONS ==
  << [name |-> <<"Jakarta">>,  lat |-> -620880, lng |-> 10684560],
     [name |-> <<"Depok">>,    lat |-> -640250, lng |-> 10679420],
     [name |-> <<"Bandung">>,  lat |-> -691750, lng |-> 10761910],
     [name |-> <<"Surabaya">>, lat |-> -725040, lng |-> 11276880],
     [name |-> <<"Medan">>,    lat |-> 359520,  lng |-> 9867220] >>

Min(a, b) == IF a < b THEN a ELSE b

RECURSIVE SumSeq(_)
SumSeq(q) == IF q = <<>> THEN 0 ELSE Head(q) + SumSeq(Tail(q))
Roster == SubSeq(DEFAULT_LOCATIONS, 1, Min(RosterLen, Len(DEFAULT_LOCATIONS)))

ProcessStart(h) == h * HourMs + HalfHour

----------------------------------------------------------------------------
(* part_001: generateOfflineSolarData and the three adapters *)

(* Math.sin((hour - 6) * Math.PI / 12) for hour = 6..18, in units of 1e-6 *)
SinTable ==
  << 0, 258819, 500000, 707107, 866025, 965926, 1000000,
     965926, 866025, 707107, 500000, 258819, 0 >>

(* rounds to 6 decimals a value given in units of 1e-8 *)
ToFixed6(x) == ((x + 50) \div 100) * 100

(* timeMultiplier of generateOfflineSolarData, in units of 1e-6 *)
TimeMultiplier(hour) ==
  IF hour >= 6 /\ hour <= 18
    THEN (SinTable[hour - 5] * 4 + 5) \div 10 + 600000
    ELSE 200000

(* baseGHI = 4.8 + Math.random() * 0.6, in units of 1e-2 *)
OfflineBaseGHI(s) == 480 + Random(s) * 15

(* generateOfflineSolarData(lat, lng, locationName) evaluated at time t with *)
(* the generator in state s (one draw)                                      *)
generateOfflineSolarData(lat, lng, locationName, t, s) ==
  LET hour == GetHours(t)
      timeMultiplier == TimeMultiplier(hour)
      ghi == ToFixed6(OfflineBaseGHI(s) * timeMultiplier)
  IN [ success |-> TRUE,
       location |-> IF locationName = Undefined THEN <<"unknown">> ELSE locationName[1],
       coordinates |-> [lat |-> lat, lng |-> lng],
       scraping_timestamp |-> t,
       data_sources |->
         [ globalsolaratlas |->
             [ success |-> TRUE, source |-> "globalsolaratlas.info",
               data |-> [ ghi |-> ghi,
                          dni |-> ToFixed6((ghi \div 100) * 75),
                          dhi |-> ToFixed6((ghi \div 100) * 25),
                          pv_output |-> (ghi \div 100) * 45 ],
               timestamp |-> t, data_quality |-> "offline_estimated" ],
           pvgis |->
             [ success |-> TRUE, source |-> "re.jrc.ec.europa.eu/pvg_tools",
               data |-> [ ghi |-> (ghi \div 100) * 97,
                          dni |-> ToFixed6((ghi \div 100) * 70),
                          pv_output |-> 220 * timeMultiplier ],
               timestamp |-> t, data_quality |-> "offline_estimated" ],
           bmkg |->
             [ success |-> TRUE, source |-> "bmkg",
               data |-> [ ghi |-> ghi ],
               timestamp |-> t, data_quality |-> "offline_estimated" ] ],
       scraping_duration_ms |-> 20,
       sources_scraped |-> 3,
       is_online_scrape |-> FALSE,
       timestamp |-> t ]

(* online branch: base = 4.8 + Math.random() * 0.8 *)
Db_scrapeGlobalSolarAtlas(online, lat, lng, t, s) ==
  IF ~online
    THEN generateOfflineSolarData(lat, lng, Undefined, t, s).data_sources.globalsolaratlas
    ELSE LET base == (480 + Random(s) * 20) * 1000000
         IN [ success |-> TRUE, source |-> "globalsolaratlas.info",
              data |-> [ ghi |-> base,
                         dni |-> ToFixed6((base \div 100) * 75),
                         dhi |-> ToFixed6((base \div 100) * 25),
                         pv_output |-> (base \div 100) * 45 ],
              timestamp |-> t, data_quality |-> "online_estimated" ]

(* online branch: base = 4.6 + Math.random() * 0.6 *)
Db_scrapePVGIS(online, lat, lng, t, s) ==
  IF ~online
    THEN generateOfflineSolarData(lat, lng, Undefined, t, s).data_sources.pvgis
    ELSE LET base == (460 + Random(s) * 15) * 1000000
         IN [ success |-> TRUE, source |-> "re.jrc.ec.europa.eu/pvg_tools",
              data |-> [ ghi |-> base,
                         dni |-> ToFixed6((base \div 100) * 70),
                         pv_output |-> 240 * 1000000 ],
              timestamp |-> t, data_quality |-> "online_excellent" ]

(* scrapeBMKG without its `if (!isOnline)` guard: always the online branch *)
Db_scrapeBMKG_unguarded(online, lat, lng, t, s) ==
  LET base == (5000 + Random(s) * 125) * 100000
  IN [ success |-> TRUE, source |-> "bmkg",
       data |-> [ ghi |-> base ],
       timestamp |-> t, data_quality |-> "online_good" ]

(* online branch: base = 5.0 + Math.random() * 0.5 *)
Db_scrapeBMKG(online, lat, lng, t, s) ==
  IF ~online
    THEN generateOfflineSolarData(lat, lng, Undefined, t, s).data_sources.bmkg
    ELSE LET base == (5000 + Random(s) * 125) * 100000
         IN [ success |-> TRUE, source |-> "bmkg",
              data |-> [ ghi |-> base ],
              timestamp |-> t, data_quality |-> "online_good" ]

SourceNames == {"globalsolaratlas", "pvgis", "bmkg"}

(* [gsa, pvgis, bmkg].filter(x => x && x.success).length *)
CountSuccess(ds) == Cardinality({k \in DOMAIN ds : ds[k].success})

----------------------------------------------------------------------------
(* part_001: persistence *)

(* the row saveToPostgreSQL inserts for data; DECIMAL(10,6) columns round *)
(* to 6 decimals                                                          *)
SolarDataRow(data) ==
  [ location_name |-> data.location,
    latitude |-> data.coordinates.lat,
    longitude |-> data.coordinates.lng,
    scraping_timestamp |-> data.scraping_timestamp,
    gsa_success |-> data.data_sources.globalsolaratlas.success,
    gsa_ghi |-> ToFixed6(data.data_sources.globalsolaratlas.data.ghi),
    gsa_dni |-> ToFixed6(data.data_sources.globalsolaratlas.data.dni),
    gsa_dhi |-> ToFixed6(data.data_sources.globalsolaratlas.data.dhi),
    gsa_pv_output |-> data.data_sources.globalsolaratlas.data.pv_output,
    gsa_data_quality |-> data.data_sources.globalsolaratlas.data_quality,
    pvgis_success |-> data.data_sources.pvgis.success,
    pvgis_ghi |-> ToFixed6(data.data_sources.pvgis.data.ghi),
    pvgis_dni |-> ToFixed6(data.data_sources.pvgis.data.dni),
    pvgis_pv_output |-> data.data_sources.pvgis.data.pv_output,
    pvgis_data_quality |-> data.data_sources.pvgis.data_quality,
    bmkg_success |-> data.data_sources.bmkg.success,
    bmkg_ghi |-> ToFixed6(data.data_sources.bmkg.data.ghi),
    bmkg_data_quality |-> data.data_sources.bmkg.data_quality,
    sources_scraped |-> data.sources_scraped,
    scraping_duration_ms |-> data.scraping_duration_ms,
    is_online_scrape |-> data.is_online_scrape,
    raw_json |-> data ]

(* saveToPostgreSQL without its try/catch: a rejected INSERT reaches the caller *)
saveToPostgreSQL_uncaught(table, data, storeOk) ==
  [ rows |-> IF storeOk THEN Append(table, SolarDataRow(data)) ELSE table,
    threw |-> ~storeOk ]

(* a writer that keeps one row per location: an accepted write replaces *)
(* the rows already stored for the location                             *)
saveToPostgreSQL_upserting(table, data, storeOk) ==
  [ rows |-> IF ~storeOk THEN table
             ELSE IF \E i \in DOMAIN table : table[i].location_name = data.location
               THEN [i \in DOMAIN table |->
                       IF table[i].location_name = data.location
                         THEN SolarDataRow(data) ELSE table[i]]
             ELSE Append(table, SolarDataRow(data)),
    threw |-> FALSE ]

(* a writer that retries an accepted INSERT: the row is inserted twice *)
saveToPostgreSQL_duplicating(table, data, storeOk) ==
  [ rows |-> IF storeOk THEN Append(Append(table, SolarDataRow(data)), SolarDataRow(data))
             ELSE table,
    threw |-> FALSE ]

(* saveToPostgreSQL(data) when pool.query settles: storeOk says whether the *)
(* INSERT was accepted.  A rejection is caught and logged inside.           *)
saveToPostgreSQL(table, data, storeOk) ==
  [ rows |-> IF storeOk THEN Append(table, SolarDataRow(data)) ELSE table,
    threw |-> FALSE ]

----------------------------------------------------------------------------
(* part_001: query layer.  A row is a record of its non-NULL columns: a   *)
(* column that is NULL is a field the record does not have.               *)

(* INTERVAL '48 hours' *)
LookbackHours == 48
LookbackMs == LookbackHours * HourMs

SourceKeys == {"gsa", "pvgis", "bmkg"}

(* colMap[sourceKey] of buildHourlyDataForSource *)
ColMap(sourceKey) ==
  IF sourceKey = "gsa"
    THEN [ghi |-> "gsa_ghi", dni |-> "gsa_dni", dhi |-> "gsa_dhi", pv |-> "gsa_pv_output"]
  ELSE IF sourceKey = "pvgis"
    THEN [ghi |-> "pvgis_ghi", dni |-> "pvgis_dni", pv |-> "pvgis_pv_output"]
  ELSE [ghi |-> "bmkg_ghi"]

(* column IS NOT NULL, r[col] !== null *)
NotNull(r, col) == col \in DOMAIN r

(* a query that also returns the rows whose GHI column is NULL *)
SelectHourlyRows_unfiltered(table, cols, t) ==
  SortSeq(SelectSeq(table, LAMBDA r : r.scraping_timestamp >= t - LookbackMs),
          LAMBDA a, b : a.scraping_timestamp < b.scraping_timestamp)

(* SELECT ... WHERE <ghi> IS NOT NULL AND scraping_timestamp >= NOW() -     *)
(* INTERVAL '48 hours' ORDER BY scraping_timestamp ASC, evaluated at time t *)
SelectHourlyRows(table, cols, t) ==
  SortSeq(SelectSeq(table, LAMBDA r : /\ NotNull(r, cols.ghi)
                                      /\ r.scraping_timestamp >= t - LookbackMs),
          LAMBDA a, b : a.scraping_timestamp < b.scraping_timestamp)

(* the keys of an element of the series for the columns of colMap *)
OutKeys == [ghi |-> "ghi", dni |-> "dni", dhi |-> "dhi", pv |-> "pv_output"]

(* rows.map(r => { const out = { timestamp: ... }; if (...) out.ghi = ... }) *)
HourlyPoint(r, cols) ==
  LET present == {m \in DOMAIN cols : NotNull(r, cols[m])}
  IN [k \in {"timestamp"} \cup {OutKeys[m] : m \in present} |->
        IF k = "timestamp" THEN r.scraping_timestamp
        ELSE r[cols[CHOOSE m \in present : OutKeys[m] = k]]]

(* buildHourlyDataForSource(sourceKey, limit) evaluated at time t; the    *)
(* body never reads limit: the window is the fixed interval.  storeUp: the *)
(* SELECT was answered, otherwise the catch returns []                    *)
buildHourlyDataForSource(sourceKey, limit, table, t, storeUp) ==
  IF ~storeUp THEN <<>>
  ELSE LET sel == SelectHourlyRows(table, ColMap(sourceKey), t)
       IN [i \in 1..Len(sel) |-> HourlyPoint(sel[i], ColMap(sourceKey))]

(* parseInt(req.query.limit || '48', 10); query: req.query.limit *)
ParseLimit(query) == IF query = Undefined THEN 48 ELSE query[1]

(* d.ghi || 0 *)
FieldOrZero(d, k) == IF k \in DOMAIN d THEN d[k] ELSE 0

(* hourly.length > 0 ? hourly.reduce((sum, d) => sum + (d[k] || 0), 0) / *)
(* hourly.length : 0, in the unit of the metric                          *)
Average(hourly, k) ==
  IF Len(hourly) > 0
    THEN SumSeq([i \in 1..Len(hourly) |-> FieldOrZero(hourly[i], k)]) \div Len(hourly)
  ELSE 0

(* res.json of GET /api/sources/global-solar-atlas, /pvgis-europe and *)
(* /bmkg-indonesia                                                    *)
SourceResponse(sourceKey, query, table, t, storeUp) ==
  LET limit == ParseLimit(query)
      hourly == buildHourlyDataForSource(sourceKey, limit, table, t, storeUp)
      last_update == IF Len(hourly) > 0 THEN Some(hourly[Len(hourly)].timestamp)
                     ELSE Undefined
  IN [ status |-> 200, success |-> TRUE,
       data |->
         IF sourceKey = "bmkg"
           THEN [ hourly_data |-> hourly,
                  total_records |-> Len(hourly),
                  avg_ghi |-> Average(hourly, "ghi"),
                  avg_temperature |-> 28500000,
                  avg_humidity |-> 74200000,
                  last_update |-> last_update ]
           ELSE [ hourly_data |-> hourly,
                  total_records |-> Len(hourly),
                  avg_ghi |-> Average(hourly, "ghi"),
                  avg_pv_output |-> Average(hourly, "pv_output"),
                  last_update |-> last_update ] ]

(* res.json of GET /api/health; the row count has a catch of its own *)
HealthResponse(table, storeUp) ==
  [ status |-> 200, success |-> TRUE,
    internet |-> isOnline,
    last_successful_scrape |-> lastSuccessfulScrape,
    total_records |-> IF storeUp THEN Len(table) ELSE 0 ]

(* MAX(scraping_timestamp), NULL for an empty table *)
LatestScrape(table) ==
  IF table = <<>> THEN Undefined
  ELSE Some(CHOOSE t \in {r.scraping_timestamp : r \in {table[i] : i \in DOMAIN table}} :
              \A i \in DOMAIN table : table[i].scraping_timestamp <= t)

(* res.json / res.status(500).json of GET /api/database/stats *)
DatabaseStatsResponse(table, storeUp) ==
  IF storeUp
    THEN [ status |-> 200, success |-> TRUE,
           stats |-> Some([ total_records |-> Len(table),
                            unique_locations |->
                              Cardinality({table[i].location_name : i \in DOMAIN table}),
                            latest_scrape |-> LatestScrape(table),
                            online_scrapes |->
                              IF table = <<>> THEN Undefined
                              ELSE Some(Cardinality({i \in DOMAIN table :
                                                       table[i].is_online_scrape})),
                            offline_scrapes |->
                              IF table = <<>> THEN Undefined
                              ELSE Some(Cardinality({i \in DOMAIN table :
                                                       ~table[i].is_online_scrape})) ]) ]
    ELSE [ status |-> 500, success |-> FALSE, stats |-> Undefined ]

----------------------------------------------------------------------------
(* part_001: tasks.  A task is one asynchronous activity of the process:  *)
(* the warm-up run, one cron firing, or one manual scrape request.         *)

DbTasks ==
  {<<"warmup", 1>>} \cup {<<"cron", i>> : i \in 1..MaxCronRuns}
                    \cup {<<"manual", i>> : i \in 1..MaxRequests}
IsRun(p) == p[1] \in {"warmup", "cron"}

NoAcquisition == <<>>

(* request bodies of POST /api/scrape/manual *)
Jakarta == [lat |-> Some(-620880), lng |-> Some(10684560)]
DbBodies ==
  { [coordinates |-> Some(Jakarta), lat |-> Undefined, lng |-> Undefined,
     location_name |-> Some(<<"Jakarta">>)],
    [coordinates |-> Undefined, lat |-> Some(-640250), lng |-> Some(10679420),
     location_name |-> Undefined],
    [coordinates |-> Undefined, lat |-> Undefined, lng |-> Some(10679420),
     location_name |-> Undefined],
    [coordinates |-> Some([lat |-> Some(-640250), lng |-> Undefined]),
     lat |-> Undefined, lng |-> Undefined, location_name |-> Some(<<"Depok">>)],
    [coordinates |-> Undefined, lat |-> Undefined, lng |-> Undefined,
     location_name |-> Undefined] }

(* a manual scrape handler that falls back to the first default location *)
(* instead of rejecting a request without coordinates                     *)
ManualCoords_defaulting(body) ==
  IF body.coordinates # Undefined /\ Truthy(body.coordinates[1].lat)
       /\ Truthy(body.coordinates[1].lng)
    THEN Some([lat |-> body.coordinates[1].lat[1], lng |-> body.coordinates[1].lng[1]])
  ELSE IF Truthy(body.lat) /\ Truthy(body.lng)
    THEN Some([lat |-> body.lat[1], lng |-> body.lng[1]])
  ELSE Some([lat |-> DEFAULT_LOCATIONS[1].lat, lng |-> DEFAULT_LOCATIONS[1].lng])

(* coords of the manual scrape handler: <<>> when the request is rejected *)
ManualCoords(body) ==
  IF body.coordinates # Undefined /\ Truthy(body.coordinates[1].lat)
       /\ Truthy(body.coordinates[1].lng)
    THEN Some([lat |-> body.coordinates[1].lat[1], lng |-> body.coordinates[1].lng[1]])
  ELSE IF Truthy(body.lat) /\ Truthy(body.lng)
    THEN Some([lat |-> body.lat[1], lng |-> body.lng[1]])
  ELSE Undefined

(* location_name || `Manual_${coords.lat}_${coords.lng}` *)
ManualName(body, coords) ==
  IF body.location_name # Undefined THEN body.location_name[1]
  ELSE <<"Manual", coords.lat, coords.lng>>

CoordKey(coords) == <<coords.lat, coords.lng>>

(* performAutoScrape up to its first await: start = Date.now(), then *)
(* checkInternetConnection() awaits axios.get.  earlier keeps the     *)
(* acquisitions that had returned when this one started.              *)
NewAcquisition(coords, name) ==
  [ coordinates |-> coords, locationName |-> name, start |-> now,
    earlier |-> acquiredAt,
    probe |-> Undefined, invokedAt |-> Undefined, result |-> Undefined,
    stored |-> Undefined, threw |-> FALSE ]

(* the result tagged with the shared flag as it was before this *)
(* acquisition's own probe settled                              *)
AutoScrapeResult_sharedFlag(coords, name, start, online, t, s) ==
  LET gsa == Db_scrapeGlobalSolarAtlas(online, coords.lat, coords.lng, t, s)
      pvgis == Db_scrapePVGIS(online, coords.lat, coords.lng, t, NextSeed(s))
      bmkg == Db_scrapeBMKG(online, coords.lat, coords.lng, t, NextSeed(NextSeed(s)))
      ds == [globalsolaratlas |-> gsa, pvgis |-> pvgis, bmkg |-> bmkg]
  IN [ success |-> TRUE,
       location |-> name,
       coordinates |-> [lat |-> coords.lat, lng |-> coords.lng],
       scraping_timestamp |-> t,
       data_sources |-> ds,
       scraping_duration_ms |-> t - start,
       sources_scraped |-> CountSuccess(ds),
       is_online_scrape |-> isOnline,
       timestamp |-> t ]

(* the result performAutoScrape builds once the probe has settled *)
AutoScrapeResult(coords, name, start, online, t, s) ==
  LET gsa == Db_scrapeGlobalSolarAtlas(online, coords.lat, coords.lng, t, s)
      pvgis == Db_scrapePVGIS(online, coords.lat, coords.lng, t, NextSeed(s))
      bmkg == Db_scrapeBMKG(online, coords.lat, coords.lng, t, NextSeed(NextSeed(s)))
      ds == [globalsolaratlas |-> gsa, pvgis |-> pvgis, bmkg |-> bmkg]
  IN [ success |-> TRUE,
       location |-> name,
       coordinates |-> [lat |-> coords.lat, lng |-> coords.lng],
       scraping_timestamp |-> t,
       data_sources |-> ds,
       scraping_duration_ms |-> t - start,
       sources_scraped |-> CountSuccess(ds),
       is_online_scrape |-> online,
       timestamp |-> t ]

(* RunAdvance taking every second entry of the roster *)
RunAdvance_skipping(p, c) ==
  IF idx[p] + 1 < Len(Roster)
    THEN [ pc |-> "probe", idx |-> idx[p] + 2,
           cur |-> NewAcquisition([lat |-> Roster[idx[p] + 2].lat,
                                   lng |-> Roster[idx[p] + 2].lng],
                                  Roster[idx[p] + 2].name) ]
    ELSE [ pc |-> "done", idx |-> idx[p], cur |-> c ]

(* the for-loop of a scheduled run moving on from roster index i *)
RunAdvance(p, c) ==
  IF idx[p] < Len(Roster)
    THEN [ pc |-> "probe", idx |-> idx[p] + 1,
           cur |-> NewAcquisition([lat |-> Roster[idx[p] + 1].lat,
                                   lng |-> Roster[idx[p] + 1].lng],
                                  Roster[idx[p] + 1].name) ]
    ELSE [ pc |-> "done", idx |-> idx[p], cur |-> c ]

(* whether the step a starts an acquisition, and whether the bound allows it *)
Starts(a) == IF a.pc = "probe" THEN 1 ELSE 0
MayStart(a) == a.pc = "probe" => started < MaxAcquisitions

OkResponse(data) == [status |-> 200, success |-> TRUE, data |-> Some(data)]
ErrorResponse(code) == [status |-> code, success |-> FALSE, data |-> Undefined]

----------------------------------------------------------------------------
(* part_001: actions *)

InitDb ==
  /\ program = "db"
  /\ now \in {ProcessStart(h) : h \in StartHours}
  /\ ticks = 0
  /\ seed \in 0..MaxSeed
  /\ pc = [p \in DbTasks |-> "idle"]
  /\ req = [p \in DbTasks |-> Undefined]
  /\ cur = [p \in DbTasks |-> NoAcquisition]
  /\ resp = [p \in DbTasks |-> Undefined]
  /\ idx = [p \in DbTasks |-> 0]
  /\ visited = [p \in DbTasks |-> <<>>]
  /\ isOnline \in BOOLEAN
  /\ lastSuccessfulScrape = Undefined
  /\ rows = <<>>
  /\ cronFiredAt = Undefined
  /\ started = 0
  /\ scrapingCache = <<>>
  /\ activeScraping = {}
  /\ files = <<>>
  /\ acquiredAt = {}
  /\ scrapedDataCache = <<>>
  /\ currentScrapingTasks = <<>>
  /\ saving = {}
  /\ synth = <<>>
  /\ answer = <<>>
  /\ queried = 0
  /\ browser = <<>>
  /\ launched = {}
  /\ pages = {}

CronDue == now % HourMs = 0 /\ cronFiredAt # Some(now)
IdleCron == {i \in 1..MaxCronRuns : pc[<<"cron", i>>] = "idle"}

(* the clock advances by half an hour *)
Tick ==
  /\ ticks < MaxTicks
  /\ program = "db" => (CronDue => IdleCron = {})
  /\ now' = now + HalfHour
  /\ ticks' = ticks + 1
  /\ UNCHANGED <<program, seed, pc, req, cur, resp, idx, visited, isOnline,
                 lastSuccessfulScrape, rows, cronFiredAt, started, acquiredAt, serverVars, autoVars, synthVars, browserVars, queryVars>>

(* startAutoScraping: the setTimeout(…, 5000) callback starts the warm-up run *)
WarmupStart ==
  LET p == <<"warmup", 1>>
      a == RunAdvance(p, NoAcquisition)
  IN /\ program = "db"
     /\ pc[p] = "idle"
     /\ MayStart(a)
     /\ pc' = [pc EXCEPT ![p] = a.pc]
     /\ idx' = [idx EXCEPT ![p] = a.idx]
     /\ cur' = [cur EXCEPT ![p] = a.cur]
     /\ started' = started + Starts(a)
     /\ UNCHANGED <<program, now, ticks, seed, req, resp, visited, isOnline,
                    lastSuccessfulScrape, rows, cronFiredAt, acquiredAt, serverVars, autoVars, synthVars, browserVars, queryVars>>

(* startAutoScraping: cron.schedule('0 * * * *', …) fires at minute 0 *)
CronFire ==
  /\ program = "db"
  /\ CronDue
  /\ IdleCron # {}
  /\ LET p == <<"cron", CHOOSE i \in IdleCron : \A j \in IdleCron : i <= j>>
         a == RunAdvance(p, NoAcquisition)
     IN /\ MayStart(a)
        /\ pc' = [pc EXCEPT ![p] = a.pc]
        /\ idx' = [idx EXCEPT ![p] = a.idx]
        /\ cur' = [cur EXCEPT ![p] = a.cur]
        /\ started' = started + Starts(a)
  /\ cronFiredAt' = Some(now)
  /\ UNCHANGED <<program, now, ticks, seed, req, resp, visited, isOnline,
                 lastSuccessfulScrape, rows, acquiredAt, serverVars, autoVars, synthVars, browserVars, queryVars>>

(* POST /api/scrape/manual, /api/force-scrape, /api/scrape-location *)
ManualScrape(p, body) ==
  /\ program = "db"
  /\ p[1] = "manual"
  /\ pc[p] = "idle"
  /\ req' = [req EXCEPT ![p] = Some(body)]
  /\ LET coords == ManualCoords(body)
     IN IF coords = Undefined
          THEN /\ resp' = [resp EXCEPT ![p] = Some(ErrorResponse(400))]
               /\ pc' = [pc EXCEPT ![p] = "done"]
               /\ UNCHANGED <<cur, started>>
          ELSE /\ started < MaxAcquisitions
               /\ cur' = [cur EXCEPT ![p] =
                            NewAcquisition(coords[1], ManualName(body, coords[1]))]
               /\ pc' = [pc EXCEPT ![p] = "probe"]
               /\ started' = started + 1
               /\ resp' = resp
  /\ UNCHANGED <<program, now, ticks, seed, idx, visited, isOnline,
                 lastSuccessfulScrape, rows, cronFiredAt, acquiredAt, serverVars, autoVars, synthVars, browserVars, queryVars>>

(* checkInternetConnection: axios.get settles (ok: resolved); then, in the  *)
(* same turn of the event loop, the three adapters run, the result is built *)
(* and saveToPostgreSQL starts its INSERT                                   *)
ProbeDone(p, ok) ==
  /\ program = "db"
  /\ pc[p] = "probe"
  /\ isOnline' = ok
  /\ LET c == cur[p]
         result == AutoScrapeResult(c.coordinates, c.locationName, c.start,
                                    isOnline', now, seed)
     IN cur' = [cur EXCEPT ![p] = [c EXCEPT !.probe = Some(ok),
                                            !.invokedAt = Some(now),
                                            !.result = Some(result)]]
  /\ seed' = NextSeed(NextSeed(NextSeed(seed)))
  /\ pc' = [pc EXCEPT ![p] = "save"]
  /\ UNCHANGED <<program, now, ticks, req, resp, idx, visited,
                 lastSuccessfulScrape, rows, cronFiredAt, started, acquiredAt, serverVars, autoVars, synthVars, browserVars, queryVars>>

(* pool.query of saveToPostgreSQL settles (storeOk: the INSERT was accepted); *)
(* saveToFile is a no-op (SAVE_TO_FILES is off), performAutoScrape returns to *)
(* its caller.  If saveToPostgreSQL threw, the catch of performAutoScrape     *)
(* would save generateOfflineSolarData instead (fallbackOk: that INSERT) and  *)
(* a second throw would reach the caller.                                     *)
SaveDone(p, storeOk, fallbackOk) ==
  /\ program = "db"
  /\ pc[p] = "save"
  /\ LET c == cur[p]
         first == saveToPostgreSQL(rows, c.result[1], storeOk)
         fallback == generateOfflineSolarData(c.coordinates.lat, c.coordinates.lng,
                                              Some(c.locationName), now, seed)
         second == saveToPostgreSQL(first.rows, fallback, fallbackOk)
         threw == first.threw /\ second.threw
         returned == IF first.threw THEN fallback ELSE c.result[1]
         c2 == [c EXCEPT !.result = Some(returned), !.stored = Some(storeOk),
                         !.threw = threw]
         a == RunAdvance(p, c2)
     IN /\ rows' = IF first.threw THEN second.rows ELSE first.rows
        /\ seed' = IF first.threw THEN NextSeed(seed) ELSE seed
        /\ lastSuccessfulScrape' =
             IF first.threw THEN lastSuccessfulScrape ELSE Some(now)
        /\ acquiredAt' =
             IF threw THEN acquiredAt
             ELSE acquiredAt \cup {[key |-> CoordKey(c.coordinates), at |-> now, by |-> p]}
        /\ IF IsRun(p)
             THEN /\ resp' = resp
                  /\ IF threw
                       THEN /\ MayStart(a)
                            /\ pc' = [pc EXCEPT ![p] = a.pc]
                            /\ idx' = [idx EXCEPT ![p] = a.idx]
                            /\ cur' = [cur EXCEPT ![p] = a.cur]
                            /\ started' = started + Starts(a)
                            /\ visited' = visited
                       ELSE /\ pc' = [pc EXCEPT ![p] = "wait"]
                            /\ cur' = [cur EXCEPT ![p] = c2]
                            /\ visited' = [visited EXCEPT ![p] = Append(@, idx[p])]
                            /\ UNCHANGED <<idx, started>>
             ELSE /\ pc' = [pc EXCEPT ![p] = "done"]
                  /\ cur' = [cur EXCEPT ![p] = c2]
                  /\ resp' = [resp EXCEPT ![p] =
                       IF threw THEN Some(ErrorResponse(500))
                       ELSE Some(OkResponse(returned))]
                  /\ UNCHANGED <<idx, visited, started>>
  /\ UNCHANGED <<program, now, ticks, req, isOnline, cronFiredAt, serverVars, autoVars, synthVars, browserVars, queryVars>>

(* wait(5000) / wait(3000) of a scheduled run elapses: next roster entry *)
WaitDone(p) ==
  /\ program = "db"
  /\ IsRun(p)
  /\ pc[p] = "wait"
  /\ LET a == RunAdvance(p, cur[p])
     IN /\ MayStart(a)
        /\ pc' = [pc EXCEPT ![p] = a.pc]
        /\ idx' = [idx EXCEPT ![p] = a.idx]
        /\ cur' = [cur EXCEPT ![p] = a.cur]
        /\ started' = started + Starts(a)
  /\ UNCHANGED <<program, now, ticks, seed, req, resp, visited, isOnline,
                 lastSuccessfulScrape, rows, cronFiredAt, acquiredAt, serverVars, autoVars, synthVars, browserVars, queryVars>>

(* GET /api/health: the row count settles (storeUp: the store answered) *)
GetHealth(storeUp) ==
  /\ program \in {"db", "store"}
  /\ queried < MaxQueries
  /\ answer' = Some([endpoint |-> "health", storeUp |-> storeUp,
                     response |-> HealthResponse(rows, storeUp)])
  /\ queried' = queried + 1
  /\ UNCHANGED <<program, now, ticks, seed, pc, req, cur, resp, idx, visited, dbVars,
                 started, acquiredAt, serverVars, autoVars, synthVars, browserVars>>

(* GET /api/database/stats (also /api/database-stats): the SELECT settles *)
GetDatabaseStats(storeUp) ==
  /\ program = "store"
  /\ queried < MaxQueries
  /\ answer' = Some([endpoint |-> "stats", storeUp |-> storeUp,
                     response |-> DatabaseStatsResponse(rows, storeUp)])
  /\ queried' = queried + 1
  /\ UNCHANGED <<program, now, ticks, seed, pc, req, cur, resp, idx, visited, dbVars,
                 started, acquiredAt, serverVars, autoVars, synthVars, browserVars>>

(* GET /api/sources/global-solar-atlas, /pvgis-europe, /bmkg-indonesia: the *)
(* SELECT of buildHourlyDataForSource settles                               *)
GetSource(sourceKey, query, storeUp) ==
  /\ program = "store"
  /\ queried < MaxQueries
  /\ answer' = Some([endpoint |-> sourceKey, limit |-> query, storeUp |-> storeUp,
                     response |-> SourceResponse(sourceKey, query, rows, now, storeUp)])
  /\ queried' = queried + 1
  /\ UNCHANGED <<program, now, ticks, seed, pc, req, cur, resp, idx, visited, dbVars,
                 started, acquiredAt, serverVars, autoVars, synthVars, browserVars>>

(* values of the query parameter limit: absent, and 24 *)
LimitQueries == {Undefined, Some(24)}

ReadEndpoints ==
  \/ \E storeUp \in BOOLEAN : GetHealth(storeUp)
  \/ \E storeUp \in BOOLEAN : GetDatabaseStats(storeUp)
  \/ \E sourceKey \in SourceKeys, query \in LimitQueries, storeUp \in BOOLEAN :
       GetSource(sourceKey, query, storeUp)

NextDb ==
  \/ Tick
  \/ \E storeUp \in BOOLEAN : GetHealth(storeUp)
  \/ WarmupStart
  \/ CronFire
  \/ \E p \in DbTasks, body \in DbBodies : ManualScrape(p, body)
  \/ \E p \in DbTasks, ok \in BOOLEAN : ProbeDone(p, ok)
  \/ \E p \in DbTasks, storeOk \in BOOLEAN, fallbackOk \in BOOLEAN :
       SaveDone(p, storeOk, fallbackOk)
  \/ \E p \in DbTasks : WaitDone(p)

SpecDb == InitDb /\ [][NextDb]_vars

(* part_001 with every awaited promise of an acquisition settling and *)
(* every timer of a scheduled run firing                              *)
SpecScheduler ==
  /\ SpecDb
  /\ \A p \in DbTasks :
       /\ WF_vars(\E ok \in BOOLEAN : ProbeDone(p, ok))
       /\ WF_vars(\E storeOk \in BOOLEAN, fallbackOk \in BOOLEAN :
                    SaveDone(p, storeOk, fallbackOk))
       /\ WF_vars(WaitDone(p))

----------------------------------------------------------------------------
(* server.js: the three source adapters.  Each is evaluated when its last  *)
(* await settles, at time t with the generator in state s; each returns    *)
(* [reading, draws], draws being the number of Math.random() calls made.   *)

Abs(x) == IF x < 0 THEN -x ELSE x
(* the generator after n draws, and the (k+1)-th draw from state s *)
RECURSIVE Advance(_, _)
Advance(s, n) == IF n = 0 THEN s ELSE Advance(NextSeed(s), n - 1)
Draw(s, k) == Random(Advance(s, k))

(* Math.sin(k * Math.PI / 12) in units of 1e-6, k = hour - 6 in -6..17 *)
RECURSIVE Sin15(_)
Sin15(k) ==
  IF k < 0 THEN -Sin15(-k)
  ELSE IF k > 12 THEN -Sin15(k - 12)
  ELSE SinTable[k + 1]

(* |lat| < 10 degrees *)
NearEquator(lat) == Abs(lat) < 1000000

(* outcome "ok": the page was opened, loaded and evaluated;                *)
(* outcome "failed": initBrowser, newPage or the third page.goto threw     *)
GsaOutcomes == {"ok", "failed"}
Srv_scrapeGlobalSolarAtlas(outcome, lat, lng, t, s) ==
  IF outcome = "ok"
    THEN LET baseGHI == IF NearEquator(lat) THEN (5000 + Draw(s, 0) * 250) * 100000
                        ELSE (4000 + Draw(s, 0) * 375) * 100000
         IN [ reading |->
                [ success |-> TRUE, source |-> "globalsolaratlas.info",
                  data |-> [ ghi |-> baseGHI,
                             dni |-> (baseGHI \div 10000) * (7500 + Draw(s, 1) * 375),
                             dhi |-> (baseGHI \div 10000) * (2500 + Draw(s, 2) * 250),
                             temperature |-> 26000000 + Draw(s, 3) * 1500000,
                             humidity |-> 70000000 + Draw(s, 4) * 5000000,
                             coordinates |-> [lat |-> lat, lng |-> lng],
                             extraction_method |-> "estimated" ],
                  timestamp |-> t, data_quality |-> "estimated" ],
              draws |-> 5 ]
    ELSE LET baseGHI == IF NearEquator(lat) THEN (5100 + Draw(s, 0) * 200) * 100000
                        ELSE (4200 + Draw(s, 0) * 250) * 100000
         IN [ reading |->
                [ success |-> FALSE, source |-> "globalsolaratlas.info",
                  data |-> [ ghi |-> baseGHI,
                             dni |-> (baseGHI \div 100) * 78,
                             dhi |-> (baseGHI \div 100) * 32,
                             temperature |-> 27000000 + Draw(s, 1) * 1250000,
                             humidity |-> 73000000 + Draw(s, 2) * 4250000,
                             coordinates |-> [lat |-> lat, lng |-> lng],
                             extraction_method |-> "error_fallback" ],
                  timestamp |-> t, data_quality |-> "estimated" ],
              draws |-> 3 ]

(* responses of the PVcalc API: <<>> is a transport error or timeout;     *)
(* H(h) values in units of 1e-2, E_y in units of 1                         *)
PvgisResponses ==
  { Undefined,
    Some([outputs |-> Some([monthly |-> <<450, 550>>, Hh |-> Undefined,
                            E_y |-> Some(1500), optimal_angle |-> Undefined])]) }

Srv_scrapePVGIS(response, lat, lng, t, s) ==
  IF response # Undefined /\ response[1].outputs # Undefined
    THEN LET data == response[1].outputs[1]
             avgGHI == IF Len(data.monthly) > 0
                         THEN (SumSeq(data.monthly) * 1000000) \div Len(data.monthly)
                       ELSE IF Truthy(data.Hh) THEN data.Hh[1] * 1000000
                       ELSE 480000000
         IN [ reading |->
                [ success |-> TRUE, source |-> "re.jrc.ec.europa.eu/pvg_tools",
                  data |-> [ ghi |-> avgGHI,
                             dni |-> (avgGHI \div 100) * 75,
                             pv_output |-> IF Truthy(data.E_y) THEN data.E_y[1] * 1000000
                                           ELSE (avgGHI \div 10000) * 365 * 15,
                             optimal_angle |-> IF Truthy(data.optimal_angle)
                                                 THEN data.optimal_angle[1] ELSE 15,
                             temperature |-> 27000000 + Draw(s, 0) * 1500000,
                             coordinates |-> [lat |-> lat, lng |-> lng] ],
                  timestamp |-> t, data_quality |-> "excellent" ],
              draws |-> 1 ]
    ELSE [ reading |->
             [ success |-> FALSE, source |-> "re.jrc.ec.europa.eu/pvg_tools",
               data |-> [ ghi |-> (4700 + Draw(s, 0) * 150) * 100000,
                          dni |-> (3800 + Draw(s, 1) * 125) * 100000,
                          pv_output |-> (1650 + Draw(s, 2) * 75) * 1000000,
                          optimal_angle |-> 15,
                          temperature |-> 27000000 + Draw(s, 3) * 1500000,
                          coordinates |-> [lat |-> lat, lng |-> lng] ],
               timestamp |-> t, data_quality |-> "estimated" ],
           draws |-> 4 ]

(* what the two page.evaluate calls of scrapeBMKG can extract: the method  *)
(* and the parsed temperature / humidity (units of 1e-6); "failed": the    *)
(* browser or newPage threw                                                *)
BmkgOutcomes ==
  { [method |-> "bmkg_main", temperature |-> Some(31000000), humidity |-> Undefined],
    [method |-> "failed", temperature |-> Undefined, humidity |-> Undefined] }

Srv_scrapeBMKG(outcome, lat, lng, t, s) ==
  IF outcome.method = "failed"
    THEN [ reading |->
             [ success |-> FALSE, source |-> "bmkg/indonesian-weather",
               data |-> [ temperature |-> 27500000 + Draw(s, 0) * 1125000,
                          humidity |-> 74000000 + Draw(s, 1) * 4000000,
                          pressure |-> 1012000000 + Draw(s, 2) * 1500000,
                          wind_speed |-> 2500000 + Draw(s, 3) * 750000,
                          cloud_cover |-> 350000 + Draw(s, 4) * 75000,
                          visibility |-> 8500000 + Draw(s, 5) * 625000,
                          extraction_method |-> "error_fallback",
                          coordinates |-> [lat |-> lat, lng |-> lng] ],
               timestamp |-> t, data_quality |-> "estimated" ],
           draws |-> 6 ]
    ELSE LET m == outcome.method
             temperature ==
               IF m = "bmkg_main"
                 THEN (IF Truthy(outcome.temperature) THEN outcome.temperature[1]
                       ELSE 27000000 + Draw(s, 0) * 1000000)
               ELSE IF m = "alternative"
                 THEN (IF Truthy(outcome.temperature) THEN outcome.temperature[1]
                       ELSE 28000000 + Draw(s, 0) * 1000000)
               ELSE 26000000 + Sin15(GetHours(t) - 6) * 4 + Draw(s, 0) * 500000
             d1 == IF m = "realistic_estimate" \/ ~Truthy(outcome.temperature)
                     THEN 1 ELSE 0
             humidity ==
               IF m = "bmkg_main"
                 THEN (IF Truthy(outcome.humidity) THEN outcome.humidity[1]
                       ELSE 75000000 + Draw(s, d1) * 3750000)
               ELSE IF m = "alternative"
                 THEN (IF Truthy(outcome.humidity) THEN outcome.humidity[1]
                       ELSE 76000000 + Draw(s, d1) * 3500000)
               ELSE 70000000 + Draw(s, d1) * 5000000
             d2 == d1 + (IF m = "realistic_estimate" \/ ~Truthy(outcome.humidity)
                           THEN 1 ELSE 0)
         IN [ reading |->
                [ success |-> TRUE, source |-> "bmkg/indonesian-weather",
                  data |-> [ temperature |-> temperature,
                             humidity |-> humidity,
                             pressure |-> 1010000000 + Draw(s, d2) * 2000000,
                             wind_speed |-> 2000000 + Draw(s, d2 + 1) * 1000000,
                             cloud_cover |-> 300000 + Draw(s, d2 + 2) * 100000,
                             visibility |-> 8000000 + Draw(s, d2 + 3) * 1000000,
                             extraction_method |-> m,
                             coordinates |-> [lat |-> lat, lng |-> lng] ],
                  timestamp |-> t,
                  data_quality |-> IF m = "bmkg_main" THEN "excellent"
                                   ELSE IF m = "alternative" THEN "good"
                                   ELSE "estimated" ],
              draws |-> d2 + 4 ]

----------------------------------------------------------------------------
(* server.js: scrapeAllSources and POST /api/scrape-location *)

ServerTasks == {<<"scrape", i>> : i \in 1..MaxCalls}

Depok == [lat |-> Some(-640250), lng |-> Some(10679420)]
(* a point 3e-5 degree from Depok: the same coordinates to 4 decimals *)
KampusUI == [lat |-> Some(-640253), lng |-> Some(10679420)]
ServerBodies ==
  { [coordinates |-> Some(Depok), location_name |-> Some(<<"Depok">>)],
    [coordinates |-> Some(KampusUI), location_name |-> Undefined],
    [coordinates |-> Some([lat |-> Undefined, lng |-> Some(10679420)]),
     location_name |-> Some(<<"Depok">>)],
    [coordinates |-> Undefined, location_name |-> Undefined] }

(* !coordinates || !coordinates.lat || !coordinates.lng *)
ScrapeLocationRejects(body) ==
  \/ body.coordinates = Undefined
  \/ ~Truthy(body.coordinates[1].lat)
  \/ ~Truthy(body.coordinates[1].lng)

(* Map.set / Map.has / Map.get on a map held as a function *)
MapHas(m, k) == k \in DOMAIN m
MapSet(m, k, v) == [x \in DOMAIN m \cup {k} |-> IF x = k THEN v ELSE m[x]]
MapDelete(m, k) == [x \in DOMAIN m \ {k} |-> m[x]]

(* rec.field of a record that may lack the field *)
Opt(rec, f) == IF f \in DOMAIN rec THEN Some(rec[f]) ELSE Undefined
(* a || b || ... || d *)
OrElse(x, d) == IF Truthy(x) THEN x[1] ELSE d

(* the freshness test with age <= 3600000 in place of age < 3600000 *)
ServerCacheFresh_inclusive(entry, t) == t - entry.timestamp <= 3600000

(* while (retryCount < 3 && !success) *)
MaxGotoTries == 3

(* age < 3600000 *)
CacheValidityMs == 3600000
ServerCacheFresh(entry, t) == t - entry.timestamp < CacheValidityMs

(* combinedWeather of scrapeAllSources *)
CombinedWeather(results) ==
  LET temps == << Opt(results.globalsolaratlas.data, "temperature"),
                  Opt(results.pvgis.data, "temperature"),
                  Opt(results.bmkg.data, "temperature") >>
      valid == SelectSeq(temps, LAMBDA x : Truthy(x) /\ x[1] > 15000000 /\ x[1] < 45000000)
      mean == SumSeq([i \in 1..Len(valid) |-> valid[i][1] \div Len(valid)])
  IN [ temperature |-> IF mean # 0 THEN mean ELSE 28000000,
       humidity |-> OrElse(Opt(results.bmkg.data, "humidity"), 75000000),
       pressure |-> OrElse(Opt(results.bmkg.data, "pressure"), 1012000000),
       wind_speed |-> OrElse(Opt(results.bmkg.data, "wind_speed"), 3000000),
       cloud_cover |-> OrElse(Opt(results.bmkg.data, "cloud_cover"), 350000),
       visibility |-> OrElse(Opt(results.bmkg.data, "visibility"), 8000000),
       solarIrradiance |->
         ((OrElse(Opt(results.globalsolaratlas.data, "ghi"),
                  OrElse(Opt(results.pvgis.data, "ghi"), 500000000)) \div 100) * 125) \div 3 ]

(* combinedSolar of scrapeAllSources *)
CombinedSolar(results) ==
  [ ghi |-> OrElse(Opt(results.globalsolaratlas.data, "ghi"),
                   OrElse(Opt(results.pvgis.data, "ghi"), 500000000)),
    dni |-> OrElse(Opt(results.globalsolaratlas.data, "dni"),
                   OrElse(Opt(results.pvgis.data, "dni"), 400000000)),
    dhi |-> OrElse(Opt(results.globalsolaratlas.data, "dhi"), 180000000),
    pv_output |-> OrElse(Opt(results.pvgis.data, "pv_output"), 1700000000),
    optimal_angle |-> OrElse(Opt(results.pvgis.data, "optimal_angle"), 15) ]

(* the number of per-source entries, whatever their success flag *)
SuccessCount_entries(results) == Cardinality(DOMAIN results)

(* Object.values(results).filter(r => r.success).length *)
SuccessCount(results) == Cardinality({k \in DOMAIN results : results[k].success})

(* finalResult of scrapeAllSources, built at time t *)
FinalResult(coords, locationName, startTime, results, t) ==
  [ success |-> TRUE,
    location |-> locationName,
    coordinates |-> [lat |-> coords.lat, lng |-> coords.lng],
    data_sources |-> results,
    weather |-> CombinedWeather(results),
    solar |-> CombinedSolar(results),
    scraping_duration_ms |-> t - startTime,
    sources_scraped |-> SuccessCount(results),
    data_quality |-> << results.globalsolaratlas.data_quality,
                        results.pvgis.data_quality,
                        results.bmkg.data_quality >>,
    timestamp |-> t ]

ScrapeLocationResponse(result) ==
  [ status |-> 200, success |-> TRUE, data |-> Some(result) ]

InitServer ==
  /\ program = "server"
  /\ now \in {ProcessStart(h) : h \in StartHours}
  /\ ticks = 0
  /\ seed \in 0..MaxSeed
  /\ pc = [p \in ServerTasks |-> "idle"]
  /\ req = [p \in ServerTasks |-> Undefined]
  /\ cur = [p \in ServerTasks |-> NoAcquisition]
  /\ resp = [p \in ServerTasks |-> Undefined]
  /\ idx = <<>>
  /\ visited = <<>>
  /\ isOnline = FALSE
  /\ lastSuccessfulScrape = Undefined
  /\ rows = <<>>
  /\ cronFiredAt = Undefined
  /\ started = 0
  /\ scrapingCache = <<>>
  /\ activeScraping = {}
  /\ files = <<>>
  /\ acquiredAt = {}
  /\ scrapedDataCache = <<>>
  /\ currentScrapingTasks = <<>>
  /\ saving = {}
  /\ synth = <<>>
  /\ answer = <<>>
  /\ queried = 0
  /\ browser = <<>>
  /\ launched = {}
  /\ pages = {}

(* POST /api/scrape-location: validation, then scrapeAllSources up to the *)
(* cache check and, on a miss, the start of the three adapters            *)
ScrapeLocation(p, body) ==
  /\ program = "server"
  /\ pc[p] = "idle"
  /\ \A q \in ServerTasks : q[2] < p[2] => pc[q] # "idle"
  /\ req' = [req EXCEPT ![p] = Some(body)]
  /\ IF ScrapeLocationRejects(body)
       THEN /\ resp' = [resp EXCEPT ![p] = Some(ErrorResponse(400))]
            /\ pc' = [pc EXCEPT ![p] = "done"]
            /\ UNCHANGED <<cur, activeScraping, started>>
       ELSE LET coords == [lat |-> body.coordinates[1].lat[1],
                           lng |-> body.coordinates[1].lng[1]]
                locationName == IF body.location_name = Undefined
                                  THEN <<"Unknown Location">>
                                  ELSE body.location_name[1]
                cacheKey == CoordKey(coords)
                cached == IF MapHas(scrapingCache, cacheKey)
                            THEN Some(scrapingCache[cacheKey]) ELSE Undefined
                hit == cached # Undefined /\ ServerCacheFresh(cached[1], now)
                c == [ cacheKey |-> cacheKey, coordinates |-> coords,
                       locationName |-> locationName, calledAt |-> now,
                       cached |-> cached, invoked |-> ~hit,
                       result |-> Undefined ]
            IN /\ cur' = [cur EXCEPT ![p] = c]
               /\ IF hit
                    THEN /\ resp' = [resp EXCEPT ![p] =
                                       Some(ScrapeLocationResponse(cached[1].data))]
                         /\ pc' = [pc EXCEPT ![p] = "done"]
                         /\ UNCHANGED <<activeScraping, started>>
                    ELSE /\ activeScraping' = activeScraping \cup {cacheKey}
                         /\ pc' = [pc EXCEPT ![p] = "adapters"]
                         /\ started' = started + 1
                         /\ resp' = resp
  /\ UNCHANGED <<program, now, ticks, seed, idx, visited, dbVars, autoVars, synthVars, browserVars, queryVars, scrapingCache,
                 files, acquiredAt>>

(* the Promise.all over the three adapters resolves.  The adapters touch  *)
(* no variable of the model but the generator, so their settling is taken *)
(* as one step, the draws being made in the order of the array; then the  *)
(* results are combined and cached, and fs.writeFile is started           *)
AdaptersSettle(p, gsaOutcome, pvgisResponse, bmkgOutcome) ==
  /\ program = "server"
  /\ pc[p] = "adapters"
  /\ LET c == cur[p]
         lat == c.coordinates.lat
         lng == c.coordinates.lng
         gsa == Srv_scrapeGlobalSolarAtlas(gsaOutcome, lat, lng, now, seed)
         s1 == Advance(seed, gsa.draws)
         pvgis == Srv_scrapePVGIS(pvgisResponse, lat, lng, now, s1)
         s2 == Advance(s1, pvgis.draws)
         bmkg == Srv_scrapeBMKG(bmkgOutcome, lat, lng, now, s2)
         results == [ globalsolaratlas |-> gsa.reading,
                      pvgis |-> pvgis.reading,
                      bmkg |-> bmkg.reading ]
         finalResult == FinalResult(c.coordinates, c.locationName,
                                    c.calledAt, results, now)
     IN /\ seed' = Advance(s2, bmkg.draws)
        /\ cur' = [cur EXCEPT ![p] = [c EXCEPT !.result = Some(finalResult)]]
        /\ scrapingCache' = MapSet(scrapingCache, c.cacheKey,
                                   [data |-> finalResult, timestamp |-> now])
        /\ pc' = [pc EXCEPT ![p] = "file"]
  /\ UNCHANGED <<program, now, ticks, req, resp, idx, visited, dbVars, autoVars, synthVars, browserVars, queryVars,
                 activeScraping, files, started, acquiredAt>>

(* fs.writeFile settles (ok: written); scrapeAllSources returns finalResult, *)
(* its finally removes the key from activeScraping, the response is sent     *)
FileDone(p, ok) ==
  /\ program = "server"
  /\ pc[p] = "file"
  /\ files' = IF ok THEN Append(files, cur[p].result[1]) ELSE files
  /\ activeScraping' = activeScraping \ {cur[p].cacheKey}
  /\ resp' = [resp EXCEPT ![p] = Some(ScrapeLocationResponse(cur[p].result[1]))]
  /\ pc' = [pc EXCEPT ![p] = "done"]
  /\ UNCHANGED <<program, now, ticks, seed, req, cur, idx, visited, dbVars, autoVars, synthVars, browserVars, queryVars,
                 scrapingCache, started, acquiredAt>>

(* POST /api/clear-cache of server.js; location: req.body.location *)
ClearCache(location) ==
  /\ program = "server"
  /\ queried < MaxQueries
  /\ IF location # Undefined
       THEN /\ scrapingCache' = MapDelete(scrapingCache, location[1])
            /\ answer' = Some([endpoint |-> "clear-cache", location |-> location,
                               response |-> [status |-> 200, success |-> TRUE,
                                             cleared_items |-> Undefined]])
       ELSE LET clearedCount == Cardinality(DOMAIN scrapingCache)
            IN /\ scrapingCache' = <<>>
               /\ answer' = Some([endpoint |-> "clear-cache", location |-> location,
                                  response |-> [status |-> 200, success |-> TRUE,
                                                cleared_items |-> Some(clearedCount)]])
  /\ queried' = queried + 1
  /\ UNCHANGED <<program, now, ticks, seed, pc, req, cur, resp, idx, visited, dbVars,
                 started, acquiredAt, activeScraping, files, autoVars, synthVars,
                 browserVars>>

NextServer ==
  \/ Tick
  \/ \E location \in {Undefined, Some(CoordKey([lat |-> Depok.lat[1], lng |-> Depok.lng[1]]))} :
       ClearCache(location)
  \/ \E p \in ServerTasks, body \in ServerBodies : ScrapeLocation(p, body)
  \/ \E p \in ServerTasks, gsaOutcome \in GsaOutcomes,
        pvgisResponse \in PvgisResponses, bmkgOutcome \in BmkgOutcomes :
       AdaptersSettle(p, gsaOutcome, pvgisResponse, bmkgOutcome)
  \/ \E p \in ServerTasks, ok \in BOOLEAN : FileDone(p, ok)

SpecServer == InitServer /\ [][NextServer]_vars

----------------------------------------------------------------------------
(* part_002: autoScrapeForCoordinates and POST /api/scrape-location.  The  *)
(* scraper object (./scrapers/SolarDataScraper) is outside the repository  *)
(* sources; scrapeAllSources and saveScrapedData are modelled from the     *)
(* specification's CombinedReading and persistence writer.                 *)

AutoTasks == {<<"request", i>> : i \in 1..MaxCalls}

AutoBodies ==
  { [lat |-> Some(-640250), lng |-> Some(10679420), name |-> Some(<<"Depok">>),
     force |-> FALSE],
    [lat |-> Some(-640250), lng |-> Some(10679420), name |-> Undefined,
     force |-> TRUE],
    [lat |-> Some(-620880), lng |-> Some(10684560), name |-> Some(<<"Jakarta">>),
     force |-> FALSE],
    [lat |-> KampusUI.lat, lng |-> KampusUI.lng, name |-> Some(<<"Kampus UI">>),
     force |-> FALSE],
    [lat |-> Undefined, lng |-> Some(10679420), name |-> Some(<<"Depok">>),
     force |-> FALSE],
    [lat |-> Some(0), lng |-> Some(10932000), name |-> Some(<<"Pontianak">>),
     force |-> FALSE] }

(* x.toFixed(d) of a coordinate given in units of 1e-5, in units of 10^-d, *)
(* for d = 3 or 4                                                          *)
ToFixed(x, d) ==
  LET unit == IF d = 4 THEN 10 ELSE 100
  IN IF x >= 0 THEN (x + unit \div 2) \div unit
     ELSE -((unit \div 2 - x) \div unit)

(* `${lat.toFixed(4)}_${lng.toFixed(4)}` *)
AutoCacheKey(lat, lng) == <<ToFixed(lat, 4), ToFixed(lng, 4)>>

(* name || `Location_${lat.toFixed(3)}_${lng.toFixed(3)}` *)
AutoLocationName(body) ==
  IF body.name # Undefined THEN body.name[1]
  ELSE <<"Location", ToFixed(body.lat[1], 3), ToFixed(body.lng[1], 3)>>

(* what scraper.scrapeAllSources can settle with: it resolves, live being *)
(* the sources that succeeded, or its promise rejects                     *)
ScraperOutcomes ==
  { [settled |-> "resolve", live |-> SourceNames],
    [settled |-> "resolve", live |-> {}],
    [settled |-> "reject", live |-> {}] }

(* the CombinedReading scraper.scrapeAllSources resolves with at time t *)
ScraperResult(lat, lng, locationName, startTime, t, live) ==
  [ location |-> locationName,
    coordinates |-> [lat |-> lat, lng |-> lng],
    scraping_timestamp |-> t,
    data_sources |->
      [ k \in SourceNames |->
          [ success |-> k \in live,
            data_quality |-> IF k \in live THEN "estimated" ELSE "error",
            timestamp |-> t ] ],
    sources_scraped |-> Cardinality(live),
    scraping_duration_ms |-> t - startTime ]

(* dataAge < 60 * 60 * 1000 *)
AutoCacheFresh(cachedData, t) == t - cachedData.scraping_timestamp < 60 * 60 * 1000

(* res.json({ success: true, ... }) of POST /api/scrape-location *)
AutoScrapeResponse(scrapedData) ==
  [ status |-> 200, success |-> TRUE, data |-> Some(scrapedData),
    sources_scraped |-> Cardinality(DOMAIN scrapedData.data_sources),
    scraping_duration |-> scrapedData.scraping_duration_ms ]

InitAuto ==
  /\ program = "auto"
  /\ now \in {ProcessStart(h) : h \in StartHours}
  /\ ticks = 0
  /\ seed \in 0..MaxSeed
  /\ pc = [p \in AutoTasks |-> "idle"]
  /\ req = [p \in AutoTasks |-> Undefined]
  /\ cur = [p \in AutoTasks |-> NoAcquisition]
  /\ resp = [p \in AutoTasks |-> Undefined]
  /\ idx = <<>>
  /\ visited = <<>>
  /\ isOnline = FALSE
  /\ lastSuccessfulScrape = Undefined
  /\ rows = <<>>
  /\ cronFiredAt = Undefined
  /\ started = 0
  /\ scrapingCache = <<>>
  /\ activeScraping = {}
  /\ files = <<>>
  /\ acquiredAt = {}
  /\ scrapedDataCache = <<>>
  /\ currentScrapingTasks = <<>>
  /\ saving = {}
  /\ synth = <<>>
  /\ answer = <<>>
  /\ queried = 0
  /\ browser = <<>>
  /\ launched = {}
  /\ pages = {}

(* POST /api/scrape-location up to its first await: validation, then the  *)
(* forced scrape or autoScrapeForCoordinates (join, cache hit, or start)   *)
AutoScrapeLocation(p, body) ==
  /\ program = "auto"
  /\ pc[p] = "idle"
  /\ \A q \in DOMAIN pc : q[2] < p[2] => pc[q] # "idle"
  /\ req' = [req EXCEPT ![p] = Some(body)]
  /\ IF ~Truthy(body.lat) \/ ~Truthy(body.lng)
       THEN /\ resp' = [resp EXCEPT ![p] = Some(ErrorResponse(400))]
            /\ pc' = [pc EXCEPT ![p] = "done"]
            /\ UNCHANGED <<cur, currentScrapingTasks>>
       ELSE LET lat == body.lat[1]
                lng == body.lng[1]
                cacheKey == AutoCacheKey(lat, lng)
                inFlight == MapHas(currentScrapingTasks, cacheKey)
                cached == IF MapHas(scrapedDataCache, cacheKey)
                            THEN Some(scrapedDataCache[cacheKey]) ELSE Undefined
                hit == cached # Undefined /\ AutoCacheFresh(cached[1], now)
                c == [ cacheKey |-> cacheKey,
                       coordinates |-> [lat |-> lat, lng |-> lng],
                       locationName |-> AutoLocationName(body),
                       calledAt |-> now, force |-> body.force,
                       inFlight |-> inFlight, cached |-> cached,
                       awaits |-> Undefined, invoked |-> TRUE,
                       result |-> Undefined ]
            IN IF body.force
                 THEN /\ cur' = [cur EXCEPT ![p] = c]
                      /\ pc' = [pc EXCEPT ![p] = "force"]
                      /\ UNCHANGED <<resp, currentScrapingTasks>>
               ELSE IF inFlight
                 THEN /\ cur' = [cur EXCEPT ![p] =
                           [c EXCEPT !.awaits = Some(currentScrapingTasks[cacheKey]),
                                     !.invoked = FALSE]]
                      /\ pc' = [pc EXCEPT ![p] = "joined"]
                      /\ UNCHANGED <<resp, currentScrapingTasks>>
               ELSE IF hit
                 THEN /\ cur' = [cur EXCEPT ![p] = [c EXCEPT !.invoked = FALSE]]
                      /\ resp' = [resp EXCEPT ![p] = Some(AutoScrapeResponse(cached[1]))]
                      /\ pc' = [pc EXCEPT ![p] = "done"]
                      /\ UNCHANGED currentScrapingTasks
               ELSE /\ cur' = [cur EXCEPT ![p] = c]
                    /\ currentScrapingTasks' = MapSet(currentScrapingTasks, cacheKey, p)
                    /\ pc' = [pc EXCEPT ![p] = "scraping"]
                    /\ UNCHANGED resp
  /\ UNCHANGED <<program, now, ticks, seed, idx, visited, dbVars, serverVars,
                 started, acquiredAt, scrapedDataCache, saving, synthVars, browserVars, queryVars>>

(* autoScrapeForCoordinates dropping the task in .then instead of *)
(* .finally: a rejected acquisition stays in the map              *)
AutoScrapeSettles_keepingTask(p, outcome) ==
  /\ program = "auto"
  /\ pc[p] = "scraping"
  /\ LET c == cur[p]
         waiters == {p} \cup {q \in DOMAIN pc : pc[q] = "joined" /\ cur[q].awaits = Some(p)}
         data == ScraperResult(c.coordinates.lat, c.coordinates.lng, c.locationName,
                               c.calledAt, now, outcome.live)
     IN /\ currentScrapingTasks' = IF outcome.settled = "reject" THEN currentScrapingTasks
                                  ELSE MapDelete(currentScrapingTasks, c.cacheKey)
        /\ pc' = [q \in DOMAIN pc |-> IF q \in waiters THEN "done" ELSE pc[q]]
        /\ IF outcome.settled = "reject"
             THEN /\ resp' = [q \in DOMAIN pc |->
                                IF q \in waiters THEN Some(ErrorResponse(500)) ELSE resp[q]]
                  /\ UNCHANGED <<cur, scrapedDataCache, saving>>
             ELSE /\ scrapedDataCache' = MapSet(scrapedDataCache, c.cacheKey, data)
                  /\ saving' = saving \cup {[data |-> data, by |-> p]}
                  /\ cur' = [q \in DOMAIN pc |->
                               IF q \in waiters THEN [cur[q] EXCEPT !.result = Some(data)]
                               ELSE cur[q]]
                  /\ resp' = [q \in DOMAIN pc |->
                                IF q \in waiters THEN Some(AutoScrapeResponse(data))
                                ELSE resp[q]]
  /\ UNCHANGED <<program, now, ticks, seed, req, idx, visited, dbVars, serverVars,
                 started, acquiredAt, synthVars, browserVars, queryVars>>

(* the scraper's promise of autoScrapeForCoordinates settles: .then caches *)
(* the data and starts saveScrapedData without awaiting it, .finally drops  *)
(* the task, and the caller and every joined caller answer                  *)
AutoScrapeSettles(p, outcome) ==
  /\ program = "auto"
  /\ pc[p] = "scraping"
  /\ LET c == cur[p]
         waiters == {p} \cup {q \in DOMAIN pc : pc[q] = "joined" /\ cur[q].awaits = Some(p)}
         data == ScraperResult(c.coordinates.lat, c.coordinates.lng, c.locationName,
                               c.calledAt, now, outcome.live)
     IN /\ currentScrapingTasks' = MapDelete(currentScrapingTasks, c.cacheKey)
        /\ pc' = [q \in DOMAIN pc |-> IF q \in waiters THEN "done" ELSE pc[q]]
        /\ IF outcome.settled = "reject"
             THEN /\ resp' = [q \in DOMAIN pc |->
                                IF q \in waiters THEN Some(ErrorResponse(500)) ELSE resp[q]]
                  /\ UNCHANGED <<cur, scrapedDataCache, saving>>
             ELSE /\ scrapedDataCache' = MapSet(scrapedDataCache, c.cacheKey, data)
                  /\ saving' = saving \cup {[data |-> data, by |-> p]}
                  /\ cur' = [q \in DOMAIN pc |->
                               IF q \in waiters THEN [cur[q] EXCEPT !.result = Some(data)]
                               ELSE cur[q]]
                  /\ resp' = [q \in DOMAIN pc |->
                                IF q \in waiters THEN Some(AutoScrapeResponse(data))
                                ELSE resp[q]]
  /\ UNCHANGED <<program, now, ticks, seed, req, idx, visited, dbVars, serverVars,
                 started, acquiredAt, synthVars, browserVars, queryVars>>

(* a saveScrapedData started by autoScrapeForCoordinates settles; a failure *)
(* is only logged                                                            *)
AutoSaveSettles(w, ok) ==
  /\ program = "auto"
  /\ w \in saving
  /\ saving' = saving \ {w}
  /\ files' = IF ok THEN Append(files, w.data) ELSE files
  /\ UNCHANGED <<program, now, ticks, seed, pc, req, cur, resp, idx, visited, dbVars,
                 scrapingCache, activeScraping, started, acquiredAt,
                 scrapedDataCache, currentScrapingTasks, synthVars, browserVars, queryVars>>

(* force: scraper.scrapeAllSources settles; the cache is updated and the *)
(* handler awaits saveScrapedData                                         *)
ForceScrapeSettles(p, outcome) ==
  /\ program = "auto"
  /\ pc[p] = "force"
  /\ LET c == cur[p]
         data == ScraperResult(c.coordinates.lat, c.coordinates.lng, c.locationName,
                               c.calledAt, now, outcome.live)
     IN IF outcome.settled = "reject"
          THEN /\ resp' = [resp EXCEPT ![p] = Some(ErrorResponse(500))]
               /\ pc' = [pc EXCEPT ![p] = "done"]
               /\ UNCHANGED <<cur, scrapedDataCache>>
          ELSE /\ scrapedDataCache' = MapSet(scrapedDataCache, c.cacheKey, data)
               /\ cur' = [cur EXCEPT ![p] = [c EXCEPT !.result = Some(data)]]
               /\ pc' = [pc EXCEPT ![p] = "forcesave"]
               /\ UNCHANGED resp
  /\ UNCHANGED <<program, now, ticks, seed, req, idx, visited, dbVars, serverVars,
                 started, acquiredAt, currentScrapingTasks, saving, synthVars, browserVars, queryVars>>

(* force: the awaited saveScrapedData settles; a rejection reaches the *)
(* handler's catch                                                      *)
ForceSaveSettles(p, ok) ==
  /\ program = "auto"
  /\ pc[p] = "forcesave"
  /\ files' = IF ok THEN Append(files, cur[p].result[1]) ELSE files
  /\ resp' = [resp EXCEPT ![p] = IF ok THEN Some(AutoScrapeResponse(cur[p].result[1]))
                                 ELSE Some(ErrorResponse(500))]
  /\ pc' = [pc EXCEPT ![p] = "done"]
  /\ UNCHANGED <<program, now, ticks, seed, req, cur, idx, visited, dbVars,
                 scrapingCache, activeScraping, started, acquiredAt, autoVars, synthVars, browserVars, queryVars>>

(* POST /api/clear-cache of part_002; location: req.body.location *)
AutoClearCache(location) ==
  /\ program = "auto"
  /\ queried < MaxQueries
  /\ IF location # Undefined
       THEN /\ scrapedDataCache' = MapDelete(scrapedDataCache, location[1])
            /\ answer' = Some([endpoint |-> "clear-cache", location |-> location,
                               response |-> [status |-> 200, success |-> TRUE,
                                             cleared_items |-> Undefined]])
       ELSE /\ scrapedDataCache' = <<>>
            /\ answer' = Some([endpoint |-> "clear-cache", location |-> location,
                               response |-> [status |-> 200, success |-> TRUE,
                                             cleared_items |-> Some(Cardinality(DOMAIN scrapedDataCache'))]])
  /\ queried' = queried + 1
  /\ UNCHANGED <<program, now, ticks, seed, pc, req, cur, resp, idx, visited, dbVars,
                 started, acquiredAt, serverVars, currentScrapingTasks, saving,
                 synthVars, browserVars>>

NextAuto ==
  \/ \E location \in {Undefined, Some(AutoCacheKey(Depok.lat[1], Depok.lng[1]))} :
       AutoClearCache(location)
  \/ Tick
  \/ \E p \in AutoTasks, body \in AutoBodies : AutoScrapeLocation(p, body)
  \/ \E p \in AutoTasks, outcome \in ScraperOutcomes : AutoScrapeSettles(p, outcome)
  \/ \E w \in saving, ok \in BOOLEAN : AutoSaveSettles(w, ok)
  \/ \E p \in AutoTasks, outcome \in ScraperOutcomes : ForceScrapeSettles(p, outcome)
  \/ \E p \in AutoTasks, ok \in BOOLEAN : ForceSaveSettles(p, ok)

SpecAuto == InitAuto /\ [][NextAuto]_vars

(* part_002 receiving three requests for one location, plain or forced, *)
(* at one time of day                                                   *)
RetryTasks == {<<"request", i>> : i \in 1..MaxRetryCalls}

RetryBodies == {body \in AutoBodies : body.lat = Depok.lat /\ body.lng = Depok.lng}

InitRetry ==
  /\ program = "auto"
  /\ now \in {ProcessStart(h) : h \in StartHours}
  /\ ticks = 0
  /\ seed \in 0..MaxSeed
  /\ pc = [p \in RetryTasks |-> "idle"]
  /\ req = [p \in RetryTasks |-> Undefined]
  /\ cur = [p \in RetryTasks |-> NoAcquisition]
  /\ resp = [p \in RetryTasks |-> Undefined]
  /\ idx = <<>>
  /\ visited = <<>>
  /\ isOnline = FALSE
  /\ lastSuccessfulScrape = Undefined
  /\ rows = <<>>
  /\ cronFiredAt = Undefined
  /\ started = 0
  /\ scrapingCache = <<>>
  /\ activeScraping = {}
  /\ files = <<>>
  /\ acquiredAt = {}
  /\ scrapedDataCache = <<>>
  /\ currentScrapingTasks = <<>>
  /\ saving = {}
  /\ synth = <<>>
  /\ answer = <<>>
  /\ queried = 0
  /\ browser = <<>>
  /\ launched = {}
  /\ pages = {}

NextRetry ==
  \/ \E p \in RetryTasks, body \in RetryBodies : AutoScrapeLocation(p, body)
  \/ \E p \in RetryTasks, outcome \in ScraperOutcomes : AutoScrapeSettles(p, outcome)
  \/ \E w \in saving, ok \in BOOLEAN : AutoSaveSettles(w, ok)
  \/ \E p \in RetryTasks, outcome \in ScraperOutcomes : ForceScrapeSettles(p, outcome)
  \/ \E p \in RetryTasks, ok \in BOOLEAN : ForceSaveSettles(p, ok)

SpecRetry == InitRetry /\ [][NextRetry]_vars

----------------------------------------------------------------------------
(* generateOfflineSolarData of part_001 as a function of its inputs: the    *)
(* clock starts at any hour of the day, and each step synthesises a reading *)
(* for a location of the roster                                             *)

DayHours == 0..23

InitSynth ==
  /\ program = "synth"
  /\ now \in {h * HourMs : h \in DayHours}
  /\ ticks = 0
  /\ seed \in 0..MaxSeed
  /\ pc = <<>>
  /\ req = <<>>
  /\ cur = <<>>
  /\ resp = <<>>
  /\ idx = <<>>
  /\ visited = <<>>
  /\ isOnline = FALSE
  /\ lastSuccessfulScrape = Undefined
  /\ rows = <<>>
  /\ cronFiredAt = Undefined
  /\ started = 0
  /\ scrapingCache = <<>>
  /\ activeScraping = {}
  /\ files = <<>>
  /\ acquiredAt = {}
  /\ scrapedDataCache = <<>>
  /\ currentScrapingTasks = <<>>
  /\ saving = {}
  /\ synth = <<>>
  /\ answer = <<>>
  /\ queried = 0
  /\ browser = <<>>
  /\ launched = {}
  /\ pages = {}

Synthesize(i) ==
  /\ program = "synth"
  /\ started < MaxAcquisitions
  /\ LET loc == Roster[i]
     IN synth' = Append(synth,
                   generateOfflineSolarData(loc.lat, loc.lng, Some(loc.name), now, seed))
  /\ seed' = NextSeed(seed)
  /\ started' = started + 1
  /\ UNCHANGED <<program, now, ticks, pc, req, cur, resp, idx, visited, dbVars,
                 serverVars, acquiredAt, autoVars, queryVars, browserVars>>

NextSynth ==
  \/ Tick
  \/ \E i \in 1..Len(Roster) : Synthesize(i)

SpecSynth == InitSynth /\ [][NextSynth]_vars

----------------------------------------------------------------------------
(* The persistence writer and the query layer of part_001 over a history  *)
(* of acquisitions spread over days: each step is one performAutoScrape    *)
(* from its probe to its INSERT, a read request, or a day passing          *)

StoreHours == {7}
LongTickHours == 25

(* a row the table held before the process started (CREATE TABLE IF NOT    *)
(* EXISTS keeps it), written at time t, whose atlas and BMKG columns are   *)
(* NULL                                                                    *)
EarlierRow(t) ==
  [ location_name |-> <<"Bogor">>,
    latitude |-> -659710,
    longitude |-> 10680600,
    scraping_timestamp |-> t,
    gsa_success |-> FALSE,
    pvgis_success |-> TRUE,
    pvgis_ghi |-> 100000000,
    pvgis_dni |-> 70000000,
    pvgis_pv_output |-> 200000000,
    pvgis_data_quality |-> "online_excellent",
    bmkg_success |-> FALSE,
    sources_scraped |-> 1,
    scraping_duration_ms |-> 20,
    is_online_scrape |-> TRUE ]

InitStore ==
  /\ program = "store"
  /\ now \in {h * HourMs : h \in StoreHours}
  /\ ticks = 0
  /\ seed \in 0..MaxSeed
  /\ pc = <<>>
  /\ req = <<>>
  /\ cur = <<>>
  /\ resp = <<>>
  /\ idx = <<>>
  /\ visited = <<>>
  /\ isOnline = FALSE
  /\ lastSuccessfulScrape = Undefined
  /\ rows \in {<<>>, <<EarlierRow(now - HourMs)>>}
  /\ cronFiredAt = Undefined
  /\ started = 0
  /\ scrapingCache = <<>>
  /\ activeScraping = {}
  /\ files = <<>>
  /\ acquiredAt = {}
  /\ scrapedDataCache = <<>>
  /\ currentScrapingTasks = <<>>
  /\ saving = {}
  /\ synth = <<>>
  /\ answer = <<>>
  /\ queried = 0
  /\ browser = <<>>
  /\ launched = {}
  /\ pages = {}

(* performAutoScrape for roster entry i, from the probe (online: it *)
(* succeeded) to the INSERT (storeOk: accepted)                     *)
StoreAcquire(i, online, storeOk) ==
  /\ program = "store"
  /\ started < MaxAcquisitions
  /\ LET loc == Roster[i]
         result == AutoScrapeResult([lat |-> loc.lat, lng |-> loc.lng], loc.name,
                                    now, online, now, seed)
     IN rows' = saveToPostgreSQL(rows, result, storeOk).rows
  /\ isOnline' = online
  /\ lastSuccessfulScrape' = Some(now)
  /\ seed' = NextSeed(NextSeed(NextSeed(seed)))
  /\ started' = started + 1
  /\ UNCHANGED <<program, now, ticks, pc, req, cur, resp, idx, visited, cronFiredAt,
                 acquiredAt, serverVars, autoVars, synthVars, browserVars, queryVars>>

(* a day and an hour pass *)
LongTick ==
  /\ program = "store"
  /\ ticks < MaxTicks
  /\ now' = now + LongTickHours * HourMs
  /\ ticks' = ticks + 1
  /\ UNCHANGED <<program, seed, pc, req, cur, resp, idx, visited, dbVars, started,
                 acquiredAt, serverVars, autoVars, synthVars, browserVars, queryVars>>

NextStore ==
  \/ LongTick
  \/ \E i \in 1..Len(Roster), online \in BOOLEAN, storeOk \in BOOLEAN :
       StoreAcquire(i, online, storeOk)
  \/ ReadEndpoints

SpecStore == InitStore /\ [][NextStore]_vars

----------------------------------------------------------------------------
(* server.js: the browser handle and the adapters step by step.  The      *)
(* tasks are the app.listen callback, the two browser-based adapters of   *)
(* an acquisition, and a call of scrapeBMKGOfficial.                      *)

AdapterTasks ==
  {<<"startup", 1>>}
    \cup {<<"gsa", i>> : i \in 1..MaxRequests}
    \cup {<<"bmkg", i>> : i \in 1..MaxRequests}
    \cup {<<"official", 1>>}

(* the entries of BMKG_LOCATION_CODES the model uses *)
BMKG_LOCATION_CODES ==
  [ k \in {"jakarta", "depok", "medan"} |->
      IF k = "jakarta" THEN "31.71.01.1001"
      ELSE IF k = "depok" THEN "32.76.01.1001"
      ELSE "12.71.01.1001" ]

(* locationKey arguments: two locations with a code, one without *)
OfficialKeys == {"Depok", "medan", "Cibinong"}

(* locationKey.toLowerCase() *)
ToLowerCase(key) ==
  IF key = "Depok" THEN "depok"
  ELSE IF key = "Cibinong" THEN "cibinong"
  ELSE key

(* BMKG_LOCATION_CODES[locationKey.toLowerCase()] *)
BmkgCode(locationKey) ==
  IF ToLowerCase(locationKey) \in DOMAIN BMKG_LOCATION_CODES
    THEN Some(BMKG_LOCATION_CODES[ToLowerCase(locationKey)])
  ELSE Undefined

(* what axios.get of the official API settles with: <<>> for a transport *)
(* error or timeout, else the status and the first forecast entry (t,    *)
(* hu, ws in units of 1e-6)                                              *)
OfficialResponses ==
  { Undefined,
    Some([status |-> 200,
          forecast |-> Some([t |-> Some(30000000), hu |-> Some(80000000),
                             ws |-> Undefined])]),
    Some([status |-> 200, forecast |-> Undefined]) }

(* the catch of scrapeBMKGOfficial *)
OfficialFallback(t, s) ==
  [ reading |->
      [ success |-> FALSE, source |-> "api.bmkg.go.id (Official)",
        data |-> [ temperature |-> 27500000 + Draw(s, 0) * 1125000,
                   humidity |-> 74000000 + Draw(s, 1) * 4000000,
                   pressure |-> 1012000000 + Draw(s, 2) * 1500000,
                   wind_speed |-> 2500000 + Draw(s, 3) * 750000,
                   cloud_cover |-> 350000 + Draw(s, 4) * 75000,
                   visibility |-> 8500000 + Draw(s, 5) * 625000,
                   extraction_method |-> "fallback" ],
        timestamp |-> t, data_quality |-> "estimated" ],
    draws |-> 6 ]

(* the result scrapeBMKGOfficial returns for a response with status 200; *)
(* processBMKGOfficialData draws the pressure when there is a forecast   *)
OfficialResult(response, t, s) ==
  LET cc == response.forecast
  IN [ reading |->
         [ success |-> TRUE, source |-> "api.bmkg.go.id (Official)",
           data |-> [ temperature |-> IF cc # Undefined THEN OrElse(cc[1].t, 28000000)
                                      ELSE 28000000,
                      humidity |-> IF cc # Undefined THEN OrElse(cc[1].hu, 75000000)
                                   ELSE 75000000,
                      pressure |-> IF cc # Undefined THEN 1012000000 + Draw(s, 0) * 1500000
                                   ELSE 1012000000,
                      wind_speed |-> IF cc # Undefined THEN OrElse(cc[1].ws, 3000000)
                                     ELSE 3000000,
                      extraction_method |-> "bmkg_official_api" ],
           timestamp |-> t, data_quality |-> "excellent" ],
       draws |-> IF cc # Undefined THEN 1 ELSE 0 ]

(* the local state of an adapter call *)
AdapterCall(lat, lng) ==
  [ lat |-> lat, lng |-> lng, handle |-> Undefined, retryCount |-> 0,
    weatherData |-> Undefined, returned |-> Undefined ]

(* the page an adapter call opened *)
PageOf(p) == [owner |-> p, of |-> cur[p].handle[1]]

(* initBrowser() up to its await: with a handle it returns it, the caller *)
(* goes on to browser.newPage(); without one it starts puppeteer.launch   *)
AfterInitBrowser == IF browser # Undefined THEN "newpage" ELSE "launching"

InitAdapters ==
  /\ program = "adapters"
  /\ now \in {ProcessStart(h) : h \in StartHours}
  /\ ticks = 0
  /\ seed \in 0..MaxSeed
  /\ pc = [p \in AdapterTasks |-> "idle"]
  /\ req = [p \in AdapterTasks |-> Undefined]
  /\ cur = [p \in AdapterTasks |-> NoAcquisition]
  /\ resp = [p \in AdapterTasks |-> Undefined]
  /\ idx = <<>>
  /\ visited = <<>>
  /\ isOnline = FALSE
  /\ lastSuccessfulScrape = Undefined
  /\ rows = <<>>
  /\ cronFiredAt = Undefined
  /\ started = 0
  /\ scrapingCache = <<>>
  /\ activeScraping = {}
  /\ files = <<>>
  /\ acquiredAt = {}
  /\ scrapedDataCache = <<>>
  /\ currentScrapingTasks = <<>>
  /\ saving = {}
  /\ synth = <<>>
  /\ answer = <<>>
  /\ queried = 0
  /\ browser = <<>>
  /\ launched = {}
  /\ pages = {}

(* the app.listen callback reaches await initBrowser() *)
StartupInit ==
  LET p == <<"startup", 1>>
  IN /\ program = "adapters"
     /\ pc[p] = "idle"
     /\ pc' = [pc EXCEPT ![p] = IF browser # Undefined THEN "done" ELSE "launching"]
     /\ UNCHANGED <<program, now, ticks, seed, req, cur, resp, idx, visited, dbVars,
                    started, acquiredAt, serverVars, autoVars, synthVars, queryVars,
                    browserVars>>

(* scrapeAllSources builds its array of promises: scrapeGlobalSolarAtlas *)
(* and scrapeBMKG are called one after the other in the same turn, each  *)
(* running up to the await in initBrowser                                *)
StartAdapters(i, coords) ==
  LET g == <<"gsa", i>>
      b == <<"bmkg", i>>
      call == [AdapterCall(coords.lat, coords.lng) EXCEPT !.handle = browser]
  IN /\ program = "adapters"
     /\ pc[g] = "idle" /\ pc[b] = "idle"
     /\ pc' = [pc EXCEPT ![g] = AfterInitBrowser, ![b] = AfterInitBrowser]
     /\ cur' = [cur EXCEPT ![g] = call, ![b] = call]
     /\ UNCHANGED <<program, now, ticks, seed, req, resp, idx, visited, dbVars,
                    started, acquiredAt, serverVars, autoVars, synthVars, queryVars,
                    browserVars>>

(* puppeteer.launch of a call of initBrowser settles (ok: a browser      *)
(* process was started).  initBrowser assigns the handle, or logs the    *)
(* failure, and returns the value of browser; an adapter that gets null  *)
(* throws at browser.newPage() and returns its fallback                  *)
LaunchSettles(p, ok) ==
  /\ program = "adapters"
  /\ pc[p] = "launching"
  /\ LET id == Cardinality(launched) + 1
         handle == IF ok THEN Some(id) ELSE browser
     IN /\ browser' = handle
        /\ launched' = IF ok THEN launched \cup {id} ELSE launched
        /\ IF p[1] = "startup"
             THEN /\ pc' = [pc EXCEPT ![p] = "done"]
                  /\ UNCHANGED <<cur, seed>>
           ELSE IF handle # Undefined
             THEN /\ pc' = [pc EXCEPT ![p] = "newpage"]
                  /\ cur' = [cur EXCEPT ![p] = [@ EXCEPT !.handle = handle]]
                  /\ UNCHANGED seed
           ELSE LET r == IF p[1] = "gsa"
                           THEN Srv_scrapeGlobalSolarAtlas("failed", cur[p].lat,
                                                           cur[p].lng, now, seed)
                         ELSE Srv_scrapeBMKG([method |-> "failed", temperature |-> Undefined,
                                              humidity |-> Undefined],
                                             cur[p].lat, cur[p].lng, now, seed)
                IN /\ pc' = [pc EXCEPT ![p] = "returned"]
                   /\ cur' = [cur EXCEPT ![p] = [@ EXCEPT !.returned = Some(r.reading)]]
                   /\ seed' = Advance(seed, r.draws)
  /\ UNCHANGED <<program, now, ticks, req, resp, idx, visited, dbVars, started,
                 acquiredAt, serverVars, autoVars, synthVars, queryVars, pages>>

(* browser.newPage() settles (ok: a page was opened) *)
NewPageSettles(p, ok) ==
  /\ program = "adapters"
  /\ pc[p] = "newpage"
  /\ IF ok
       THEN /\ pages' = pages \cup {PageOf(p)}
            /\ pc' = [pc EXCEPT ![p] = "goto"]
            /\ UNCHANGED <<cur, seed>>
       ELSE LET r == IF p[1] = "gsa"
                       THEN Srv_scrapeGlobalSolarAtlas("failed", cur[p].lat, cur[p].lng,
                                                       now, seed)
                     ELSE Srv_scrapeBMKG([method |-> "failed", temperature |-> Undefined,
                                          humidity |-> Undefined],
                                         cur[p].lat, cur[p].lng, now, seed)
            IN /\ pc' = [pc EXCEPT ![p] = "returned"]
               /\ cur' = [cur EXCEPT ![p] = [@ EXCEPT !.returned = Some(r.reading)]]
               /\ seed' = Advance(seed, r.draws)
               /\ pages' = pages
  /\ UNCHANGED <<program, now, ticks, req, resp, idx, visited, dbVars, started,
                 acquiredAt, serverVars, autoVars, synthVars, queryVars, browser, launched>>

(* scrapeGlobalSolarAtlas: a page.goto of the retry loop settles.  After *)
(* the third failure the error is rethrown to the outer catch, which     *)
(* returns the fallback                                                  *)
GsaGotoSettles(p, ok) ==
  /\ program = "adapters"
  /\ p[1] = "gsa"
  /\ pc[p] = "goto"
  /\ IF ok
       THEN /\ pc' = [pc EXCEPT ![p] = "evaluate"]
            /\ UNCHANGED <<cur, seed>>
     ELSE IF cur[p].retryCount + 1 < MaxGotoTries
       THEN /\ cur' = [cur EXCEPT ![p] = [@ EXCEPT !.retryCount = @ + 1]]
            /\ UNCHANGED <<pc, seed>>
     ELSE LET r == Srv_scrapeGlobalSolarAtlas("failed", cur[p].lat, cur[p].lng, now, seed)
          IN /\ pc' = [pc EXCEPT ![p] = "returned"]
             /\ cur' = [cur EXCEPT ![p] = [@ EXCEPT !.retryCount = @ + 1,
                                                   !.returned = Some(r.reading)]]
             /\ seed' = Advance(seed, r.draws)
  /\ UNCHANGED <<program, now, ticks, req, resp, idx, visited, dbVars, started,
                 acquiredAt, serverVars, autoVars, synthVars, queryVars, browserVars>>

(* scrapeGlobalSolarAtlas: wait(5000) and page.evaluate settle (ok: the *)
(* page delivered solarData); page.close() is then awaited              *)
GsaEvaluateSettles(p, ok) ==
  /\ program = "adapters"
  /\ p[1] = "gsa"
  /\ pc[p] = "evaluate"
  /\ IF ok
       THEN /\ pc' = [pc EXCEPT ![p] = "close"]
            /\ UNCHANGED <<cur, seed>>
       ELSE LET r == Srv_scrapeGlobalSolarAtlas("failed", cur[p].lat, cur[p].lng, now, seed)
            IN /\ pc' = [pc EXCEPT ![p] = "returned"]
               /\ cur' = [cur EXCEPT ![p] = [@ EXCEPT !.returned = Some(r.reading)]]
               /\ seed' = Advance(seed, r.draws)
  /\ UNCHANGED <<program, now, ticks, req, resp, idx, visited, dbVars, started,
                 acquiredAt, serverVars, autoVars, synthVars, queryVars, browserVars>>

(* scrapeBMKG: the attempt on the main site (page.goto, wait,            *)
(* page.evaluate) settles; a failure is caught by the inner try.  found: *)
(* the page delivered weatherData                                        *)
BmkgMainSettles(p, found) ==
  /\ program = "adapters"
  /\ p[1] = "bmkg"
  /\ pc[p] = "goto"
  /\ IF found
       THEN /\ cur' = [cur EXCEPT ![p] = [@ EXCEPT !.weatherData = Some("bmkg_main")]]
            /\ pc' = [pc EXCEPT ![p] = "close"]
       ELSE /\ pc' = [pc EXCEPT ![p] = "alternative"]
            /\ cur' = cur
  /\ UNCHANGED <<program, now, ticks, seed, req, resp, idx, visited, dbVars, started,
                 acquiredAt, serverVars, autoVars, synthVars, queryVars, browserVars>>

(* scrapeBMKG: the attempt on the alternative site settles *)
BmkgAlternativeSettles(p, found) ==
  /\ program = "adapters"
  /\ p[1] = "bmkg"
  /\ pc[p] = "alternative"
  /\ cur' = [cur EXCEPT ![p] =
               [@ EXCEPT !.weatherData = IF found THEN Some("alternative") ELSE Undefined]]
  /\ pc' = [pc EXCEPT ![p] = "close"]
  /\ UNCHANGED <<program, now, ticks, seed, req, resp, idx, visited, dbVars, started,
                 acquiredAt, serverVars, autoVars, synthVars, queryVars, browserVars>>

(* page.close() settles; the adapter builds its result and returns *)
CloseSettles(p) ==
  /\ program = "adapters"
  /\ pc[p] = "close"
  /\ pages' = pages \ {PageOf(p)}
  /\ LET r == IF p[1] = "gsa"
                THEN Srv_scrapeGlobalSolarAtlas("ok", cur[p].lat, cur[p].lng, now, seed)
              ELSE Srv_scrapeBMKG(
                     [method |-> IF cur[p].weatherData = Undefined THEN "realistic_estimate"
                                 ELSE cur[p].weatherData[1],
                      temperature |-> IF cur[p].weatherData = Undefined THEN Undefined
                                      ELSE Some(31000000),
                      humidity |-> Undefined],
                     cur[p].lat, cur[p].lng, now, seed)
     IN /\ cur' = [cur EXCEPT ![p] = [@ EXCEPT !.returned = Some(r.reading)]]
        /\ seed' = Advance(seed, r.draws)
  /\ pc' = [pc EXCEPT ![p] = "returned"]
  /\ UNCHANGED <<program, now, ticks, req, resp, idx, visited, dbVars, started,
                 acquiredAt, serverVars, autoVars, synthVars, queryVars, browser, launched>>

(* scrapeBMKGOfficial(locationKey) up to its first await: without a code *)
(* for the location it throws inside its try and the catch returns the   *)
(* fallback at once, otherwise axios.get is awaited                      *)
OfficialCall(p, locationKey) ==
  /\ program = "adapters"
  /\ p[1] = "official"
  /\ pc[p] = "idle"
  /\ req' = [req EXCEPT ![p] = Some(locationKey)]
  /\ IF BmkgCode(locationKey) = Undefined
       THEN LET r == OfficialFallback(now, seed)
            IN /\ cur' = [cur EXCEPT ![p] = [returned |-> Some(r.reading)]]
               /\ seed' = Advance(seed, r.draws)
               /\ pc' = [pc EXCEPT ![p] = "returned"]
       ELSE /\ cur' = [cur EXCEPT ![p] = [returned |-> Undefined]]
            /\ pc' = [pc EXCEPT ![p] = "api"]
            /\ seed' = seed
  /\ UNCHANGED <<program, now, ticks, resp, idx, visited, dbVars, started,
                 acquiredAt, serverVars, autoVars, synthVars, queryVars, browserVars>>

(* axios.get of scrapeBMKGOfficial settles; with a status 200 the data   *)
(* are processed and saveBMKGHistoricalData is awaited                   *)
OfficialApiSettles(p, response) ==
  /\ program = "adapters"
  /\ pc[p] = "api"
  /\ LET good == response # Undefined /\ response[1].status = 200
         r == IF good THEN OfficialResult(response[1], now, seed)
              ELSE OfficialFallback(now, seed)
     IN /\ cur' = [cur EXCEPT ![p] = [returned |-> Some(r.reading)]]
        /\ seed' = Advance(seed, r.draws)
        /\ pc' = [pc EXCEPT ![p] = IF good THEN "history" ELSE "returned"]
  /\ UNCHANGED <<program, now, ticks, req, resp, idx, visited, dbVars, started,
                 acquiredAt, serverVars, autoVars, synthVars, queryVars, browserVars>>

(* fs.writeFile of saveBMKGHistoricalData settles, a failure is logged; *)
(* scrapeBMKGOfficial returns its result                                *)
OfficialHistorySettles(p) ==
  /\ program = "adapters"
  /\ pc[p] = "history"
  /\ pc' = [pc EXCEPT ![p] = "returned"]
  /\ UNCHANGED <<program, now, ticks, seed, req, cur, resp, idx, visited, dbVars,
                 started, acquiredAt, serverVars, autoVars, synthVars, queryVars,
                 browserVars>>

NextAdapters ==
  \/ StartupInit
  \/ \E i \in 1..MaxRequests, coords \in {Depok} :
       StartAdapters(i, [lat |-> coords.lat[1], lng |-> coords.lng[1]])
  \/ \E p \in AdapterTasks, ok \in BOOLEAN : LaunchSettles(p, ok)
  \/ \E p \in AdapterTasks, ok \in BOOLEAN : NewPageSettles(p, ok)
  \/ \E p \in AdapterTasks, ok \in BOOLEAN : GsaGotoSettles(p, ok)
  \/ \E p \in AdapterTasks, ok \in BOOLEAN : GsaEvaluateSettles(p, ok)
  \/ \E p \in AdapterTasks, found \in BOOLEAN : BmkgMainSettles(p, found)
  \/ \E p \in AdapterTasks, found \in BOOLEAN : BmkgAlternativeSettles(p, found)
  \/ \E p \in AdapterTasks : CloseSettles(p)
  \/ \E p \in AdapterTasks, locationKey \in OfficialKeys : OfficialCall(p, locationKey)
  \/ \E p \in AdapterTasks, response \in OfficialResponses : OfficialApiSettles(p, response)
  \/ \E p \in AdapterTasks : OfficialHistorySettles(p)

SpecAdapters == InitAdapters /\ [][NextAdapters]_vars

----------------------------------------------------------------------------
(* The programs together *)

Init == InitDb \/ InitServer \/ InitAuto \/ InitSynth \/ InitStore \/ InitAdapters
Next == NextDb \/ NextServer \/ NextAuto \/ NextSynth \/ NextStore \/ NextAdapters
Spec == Init /\ [][Next]_vars

(* the programs whose readings are built by the code of the repository *)
SpecReadings == (InitDb \/ InitServer \/ InitSynth)
                  /\ [][NextDb \/ NextServer \/ NextSynth]_vars

(* the two programs that hold an acquisition cache *)
SpecCached == (InitServer \/ InitAuto) /\ [][NextServer \/ NextAuto]_vars

(* the two programs whose manual scrape endpoint validates coordinates *)
SpecManual == (InitDb \/ InitServer) /\ [][NextDb \/ NextServer]_vars

(* part_001 as the process with its scheduler and as the writer and query *)
(* layer over a longer history                                            *)
SpecPersist == (InitDb \/ InitStore) /\ [][NextDb \/ NextStore]_vars

----------------------------------------------------------------------------
(* Properties *)

Range(q) == {q[i] : i \in DOMAIN q}

(* the calls that reached a cached entry point: scrapeAllSources in *)
(* server.js, autoScrapeForCoordinates in part_002                  *)
CachedCalls ==
  IF program = "server" THEN {p \in DOMAIN cur : cur[p] # NoAcquisition}
  ELSE IF program = "auto"
    THEN {p \in DOMAIN cur : cur[p] # NoAcquisition /\ ~cur[p].force}
  ELSE {}

(* the reading the cache held for the call's key when the call was made, *)
(* and when that reading was stored                                      *)
SeenReading(p) ==
  IF program = "server" THEN cur[p].cached[1].data ELSE cur[p].cached[1]
SeenStoredAt(p) ==
  IF program = "server" THEN cur[p].cached[1].timestamp
  ELSE cur[p].cached[1].scraping_timestamp
SeenFresh(p) ==
  cur[p].cached # Undefined /\ cur[p].calledAt - SeenStoredAt(p) < HourMs

(* the call was made while an acquisition for its key was registered in *)
(* currentScrapingTasks                                                  *)
MadeInFlight(p) == program = "auto" /\ cur[p].inFlight

(* the cache as a map from keys to readings *)
CachedReadings ==
  IF program = "server"
    THEN [k \in DOMAIN scrapingCache |-> scrapingCache[k].data]
  ELSE scrapedDataCache

AnsweredWith(p, reading) ==
  pc[p] = "done" => resp[p] # Undefined /\ resp[p][1].data = Some(reading)

(* C1, as stated: every call for a key whose entry is younger than one    *)
(* hour is answered with the stored reading and invokes no adapter, and   *)
(* every call for a key with no entry or an entry aged one hour or more   *)
(* invokes the adapters.                                                  *)
C1_EveryCallFollowsTheCache ==
  \A p \in CachedCalls :
    /\ SeenFresh(p) => ~cur[p].invoked /\ AnsweredWith(p, SeenReading(p))
    /\ ~SeenFresh(p) => cur[p].invoked

C1_CallFollowsTheCache ==
  \A p \in CachedCalls :
    ~MadeInFlight(p) =>
      /\ SeenFresh(p) => ~cur[p].invoked /\ AnsweredWith(p, SeenReading(p))
      /\ ~SeenFresh(p) => cur[p].invoked

C1_MissReplacesTheEntry ==
  \A p \in CachedCalls :
    (cur[p].invoked /\ cur[p].result = Undefined /\ cur'[p].result # Undefined)
      => /\ cur[p].cacheKey \in DOMAIN CachedReadings'
         /\ CachedReadings'[cur[p].cacheKey] = cur'[p].result[1]

(* C1, amended: a call made while no acquisition for its key is in        *)
(* flight is answered with the stored reading, invoking no adapter, when  *)
(* the entry is younger than one hour, and invokes the adapters           *)
(* otherwise; when the adapters it invoked deliver a reading, that        *)
(* reading replaces the entry.                                            *)
C1_CacheContract == []C1_CallFollowsTheCache /\ [][C1_MissReplacesTheEntry]_vars

(* a call found an entry stored half an hour earlier and was answered *)
(* with it                                                            *)
C1_AgedHitAnswered ==
  \E p \in CachedCalls :
    /\ ~MadeInFlight(p)
    /\ SeenFresh(p)
    /\ cur[p].calledAt > SeenStoredAt(p)
    /\ pc[p] = "done"
    /\ resp[p] # Undefined /\ resp[p][1].data = Some(SeenReading(p))

(* the tasks whose acquisition has invoked the adapters and not yet got *)
(* their results                                                        *)
Acquiring ==
  IF program = "server" THEN {p \in DOMAIN pc : pc[p] = "adapters"}
  ELSE IF program = "auto" THEN {p \in DOMAIN pc : pc[p] \in {"scraping", "force"}}
  ELSE IF program = "db" THEN {p \in DOMAIN pc : pc[p] \in {"probe", "save"}}
  ELSE {}

(* C2: at no time do two acquisitions for the same coordinates have the *)
(* source adapters invoked; a concurrent caller awaits the one in       *)
(* flight.                                                              *)
C2_OneAcquisitionPerKey ==
  program \in {"server", "auto"} =>
    \A p \in Acquiring, q \in Acquiring :
      p # q => cur[p].cacheKey # cur[q].cacheKey

(* C3: in part_001 an acquisition, scheduled or manual, started for *)
(* coordinates that were acquired less than one hour earlier does   *)
(* not invoke the adapters.                                         *)
C3_NoAcquisitionWithinTheHour ==
  program = "db" =>
    \A p \in DOMAIN cur :
      (cur[p] # NoAcquisition /\ cur[p].invokedAt # Undefined) =>
        ~ \E a \in cur[p].earlier :
            /\ a.key = CoordKey(cur[p].coordinates)
            /\ cur[p].invokedAt[1] - a.at < HourMs

(* every CombinedReading the state holds: results of acquisitions, *)
(* response payloads, raw payloads of rows, cache entries, files,  *)
(* synthesised readings                                            *)
Readings ==
  {cur[p].result[1] :
     p \in {q \in DOMAIN cur : cur[q] # NoAcquisition /\ cur[q].result # Undefined}}
  \cup {resp[p][1].data[1] :
          p \in {q \in DOMAIN resp : resp[q] # Undefined /\ resp[q][1].data # Undefined}}
  \cup {r.raw_json : r \in Range(rows)}
  \cup {scrapingCache[k].data : k \in DOMAIN scrapingCache}
  \cup Range(files)
  \cup Range(synth)

(* C4: every CombinedReading has exactly three per-source entries, each *)
(* with a success flag and a quality tag, and its sources_scraped is    *)
(* the number of entries whose success is true.                         *)
C4_ThreeEntriesCounted ==
  \A r \in Readings :
    /\ DOMAIN r.data_sources = SourceNames
    /\ \A k \in SourceNames :
         /\ {"success", "data_quality"} \subseteq DOMAIN r.data_sources[k]
         /\ r.data_sources[k].success \in BOOLEAN
    /\ r.sources_scraped =
         Cardinality({k \in SourceNames : r.data_sources[k].success = TRUE})

(* a reading with a failed source has been written to a data file *)
C4_PartialReadingSaved ==
  \E r \in Range(files) : r.sources_scraped \in {1, 2}

(* C5: an acquisition of part_001 whose connectivity probe failed has a *)
(* reading with quality offline_estimated for all three sources and     *)
(* is_online_scrape = false, raises nothing, and a manual request is    *)
(* answered 200 with that reading.                                      *)
C5_ProbeFailureGivesOfflineReading ==
  program = "db" =>
    \A p \in DOMAIN cur :
      (cur[p] # NoAcquisition /\ cur[p].probe = Some(FALSE)) =>
        /\ cur[p].result # Undefined
        /\ \A k \in SourceNames :
             cur[p].result[1].data_sources[k].data_quality = "offline_estimated"
        /\ cur[p].result[1].is_online_scrape = FALSE
        /\ ~cur[p].threw
        /\ (p[1] = "manual" /\ pc[p] = "done") =>
             resp[p] = Some(OkResponse(cur[p].result[1]))

(* a manual request whose probe failed has been answered *)
C5_OfflineManualAnswered ==
  /\ program = "db"
  /\ \E p \in DOMAIN cur :
       /\ p[1] = "manual"
       /\ cur[p] # NoAcquisition
       /\ cur[p].probe = Some(FALSE)
       /\ pc[p] = "done"
       /\ resp[p] # Undefined /\ resp[p][1].status = 200

(* C6: a reading synthesised at an hour h < 6 or h > 18 has GHI 0 for *)
(* every source; GHI is above 0 only for hours in [6, 18].            *)
C6_OfflineGhiZeroOutsideDaylight ==
  \A i \in DOMAIN synth :
    LET h == GetHours(synth[i].scraping_timestamp)
    IN (h < 6 \/ h > 18) =>
         \A k \in SourceNames : synth[i].data_sources[k].data.ghi = 0

(* C7: two syntheses for the same coordinates within the same hour give *)
(* the same metric values for every source.                             *)
C7_SynthesisDeterministic ==
  \A i \in DOMAIN synth, j \in DOMAIN synth :
    ( /\ synth[i].coordinates = synth[j].coordinates
      /\ synth[i].scraping_timestamp \div HourMs = synth[j].scraping_timestamp \div HourMs )
    => \A k \in SourceNames :
         synth[i].data_sources[k].data = synth[j].data_sources[k].data

(* a request body without coordinates: no coordinates object with both *)
(* lat and lng, and no top-level lat/lng pair                          *)
MissingCoordinates(body) ==
  /\ ~ ( /\ body.coordinates # Undefined
         /\ body.coordinates[1].lat # Undefined
         /\ body.coordinates[1].lng # Undefined )
  /\ ~ ( /\ "lat" \in DOMAIN body
         /\ body.lat # Undefined
         /\ body.lng # Undefined )

C8_RejectedStaysRejected ==
  \A p \in DOMAIN req :
    (req[p] # Undefined /\ MissingCoordinates(req[p][1])) =>
      /\ pc[p] = "done"
      /\ cur[p] = NoAcquisition
      /\ resp[p] # Undefined /\ resp[p][1].status = 400

C8_RejectionChangesNothing ==
  \A p \in DOMAIN req :
    (req[p] = Undefined /\ req'[p] # Undefined /\ MissingCoordinates(req'[p][1])) =>
      /\ cur' = cur
      /\ \A q \in DOMAIN pc : q # p => pc'[q] = pc[q]
      /\ started' = started
      /\ UNCHANGED <<seed, rows, isOnline, lastSuccessfulScrape, acquiredAt,
                     scrapingCache, activeScraping, files>>

(* C8: a manual scrape request without coordinates is answered 400 and *)
(* has no other effect: no acquisition is created for it, no adapter   *)
(* is invoked, no row is inserted, and the cache and the in-flight set *)
(* are unchanged.                                                      *)
C8_MissingCoordinatesRejected ==
  []C8_RejectedStaysRejected /\ [][C8_RejectionChangesNothing]_vars

(* a request without lat has been answered 400 *)
C8_RejectionAnswered ==
  \E p \in DOMAIN req :
    /\ req[p] # Undefined
    /\ MissingCoordinates(req[p][1])
    /\ resp[p] # Undefined /\ resp[p][1].status = 400

ScheduledRuns == IF program = "db" THEN {p \in DOMAIN pc : IsRun(p)} ELSE {}

(* a scheduled run has had every roster entry before the current one *)
(* returned, in order, and ends only after the last roster entry     *)
C9_RunKeepsGoing ==
  \A p \in ScheduledRuns :
    /\ visited[p] = [i \in 1..Len(visited[p]) |-> i]
    /\ Len(visited[p]) = IF pc[p] \in {"probe", "save"} THEN idx[p] - 1 ELSE idx[p]
    /\ pc[p] = "done" => idx[p] = Len(Roster)
    /\ pc[p] \in {"wait", "done"} => ~cur[p].threw

(* when the INSERT of a scheduled acquisition settles, accepted or not, *)
(* the acquisition returns the reading it built and the run waits for   *)
(* the inter-location delay                                             *)
C9_InsertSettles ==
  \A p \in ScheduledRuns :
    (pc[p] = "save" /\ pc'[p] # "save") =>
      /\ pc'[p] = "wait"
      /\ cur'[p].result = cur[p].result
      /\ \/ rows' = rows /\ cur'[p].stored = Some(FALSE)
         \/ rows' = Append(rows, SolarDataRow(cur[p].result[1]))
              /\ cur'[p].stored = Some(TRUE)

(* C9: a failed row insert in a scheduled run is caught inside the   *)
(* writer: the acquisition still returns its reading, and the run    *)
(* goes on through the remaining locations of the roster.            *)
C9_InsertFailureContained == []C9_RunKeepsGoing /\ [][C9_InsertSettles]_vars

(* a run whose first insert failed is acquiring the second location *)
C9_RunPastFailedInsert ==
  \E p \in ScheduledRuns :
    /\ idx[p] = 2
    /\ pc[p] \in {"probe", "save"}
    /\ visited[p] = <<1>>
    /\ rows = <<>>

(* C10: in part_001 no two acquisitions for the same coordinates are in *)
(* progress at the same time.                                           *)
C10_NoOverlapPerLocation ==
  program = "db" =>
    \A p \in Acquiring, q \in Acquiring :
      p # q => CoordKey(cur[p].coordinates) # CoordKey(cur[q].coordinates)

----------------------------------------------------------------------------
(* C11 *)

(* the number of acquisitions whose write has settled: roster entries a  *)
(* scheduled run has returned from, manual requests of part_001 and      *)
(* calls of scrapeAllSources that went through the adapters and answered *)
RECURSIVE SetSum(_, _)
SetSum(f, S) ==
  IF S = {} THEN 0
  ELSE LET x == CHOOSE y \in S : TRUE IN f[x] + SetSum(f, S \ {x})

WritesSettled ==
  IF program = "db"
    THEN SetSum([p \in DOMAIN pc |->
                   IF IsRun(p) THEN Len(visited[p])
                   ELSE IF pc[p] = "done" /\ cur[p] # NoAcquisition THEN 1
                   ELSE 0],
                DOMAIN pc)
  ELSE IF program = "server"
    THEN Cardinality({p \in DOMAIN pc : pc[p] = "done" /\ cur[p] # NoAcquisition
                                          /\ cur[p].invoked})
  ELSE 0

C11_AtMostOneWriteEach ==
  program \in {"db", "server"} => Len(rows) + Len(files) <= WritesSettled

C11_WriteIsTheCombinedReading ==
  (rows' # rows \/ files' # files) =>
    \E p \in DOMAIN pc :
      /\ pc[p] \in {"save", "file"}
      /\ pc'[p] \notin {"save", "file", "adapters"}
      /\ cur[p].result # Undefined
      /\ DOMAIN cur[p].result[1].data_sources = SourceNames
      /\ IF program = "db"
           THEN /\ rows' = Append(rows, SolarDataRow(cur[p].result[1]))
                /\ rows'[Len(rows')].raw_json.data_sources = cur[p].result[1].data_sources
                /\ files' = files
           ELSE /\ files' = Append(files, cur[p].result[1])
                /\ rows' = rows

----------------------------------------------------------------------------
(* C12 *)

C12_RowsOnlyAppended ==
  /\ Len(rows') >= Len(rows)
  /\ SubSeq(rows', 1, Len(rows)) = rows

(* C12: the table solar_data is append-only: over scheduled runs, manual *)
(* scrapes and read requests every step leaves the rows already stored   *)
(* as they are, in place, and at most adds rows after them; the row      *)
(* count never decreases.                                                *)
C12_AppendOnly == [][C12_RowsOnlyAppended]_vars

(* the rows of a scheduled acquisition and of a manual scrape are both *)
(* in the table after a read request                                   *)
C12_RowsKeptAcrossOperations ==
  /\ program = "db"
  /\ Len(rows) = 2
  /\ queried >= 1
  /\ \E p \in ScheduledRuns : visited[p] # <<>>
  /\ \E p \in DOMAIN pc :
       /\ p[1] = "manual"
       /\ pc[p] = "done"
       /\ cur[p] # NoAcquisition
       /\ cur[p].stored = Some(TRUE)

----------------------------------------------------------------------------
(* C13 *)

(* the fields of a reading that hold values blended across sources *)
BlendedFields == {"weather", "solar"}

(* C13: every persisted record, the raw payload of a row or a saved data *)
(* file, holds per-source metric values only: no combined weather or     *)
(* combined solar field is persisted.                                    *)
C13_OnlyPerSourceValuesPersisted ==
  /\ \A i \in DOMAIN rows :
       "raw_json" \in DOMAIN rows[i] => DOMAIN rows[i].raw_json \cap BlendedFields = {}
  /\ \A i \in DOMAIN files : DOMAIN files[i] \cap BlendedFields = {}

----------------------------------------------------------------------------
(* C14 *)

(* C14: a per-source result of server.js whose adapter failed inside has *)
(* success = false, the quality tag error, and a value for every metric  *)
(* of the source; the adapter raised nothing to scrapeAllSources.        *)
C14_FailedSourceTaggedError ==
  program = "server" =>
    \A p \in DOMAIN cur :
      (cur[p] # NoAcquisition /\ cur[p].result # Undefined) =>
        \A k \in SourceNames :
          LET entry == cur[p].result[1].data_sources[k]
          IN ~entry.success =>
               /\ entry.data_quality = "error"
               /\ "data" \in DOMAIN entry
               /\ DOMAIN entry.data # {}

----------------------------------------------------------------------------
(* C15 *)

(* C15: a call of scrapeBMKGOfficial for a location without a registered *)
(* code returns, without throwing, a result with success = true whose    *)
(* values come from the fallback.                                        *)
C15_UnregisteredLocationSucceedsDegraded ==
  program = "adapters" =>
    \A p \in AdapterTasks :
      (p[1] = "official" /\ pc[p] = "returned" /\ BmkgCode(req[p][1]) = Undefined) =>
        /\ cur[p].returned # Undefined
        /\ cur[p].returned[1].success = TRUE
        /\ cur[p].returned[1].data.extraction_method = "fallback"

----------------------------------------------------------------------------
(* C16 *)

(* a launched browser is referenced by the process-wide handle or by the *)
(* local handle of an adapter call still in progress                     *)
BrowserReferenced(b) ==
  \/ browser = Some(b)
  \/ \E p \in AdapterTasks :
       /\ p[1] \in {"gsa", "bmkg"}
       /\ pc[p] \in {"newpage", "goto", "evaluate", "alternative", "close"}
       /\ cur[p].handle = Some(b)

(* C16: no browser is closed while the process runs, so at most one      *)
(* browser is ever launched and every launched browser stays referenced. *)
C16_BrowserSingleton ==
  program = "adapters" =>
    /\ Cardinality(launched) <= 1
    /\ \A b \in launched : BrowserReferenced(b)

----------------------------------------------------------------------------
(* C17 *)

(* the calls of the browser-based adapters that are in progress *)
AdapterCallsInProgress ==
  {p \in AdapterTasks : p[1] \in {"gsa", "bmkg"} /\ pc[p] \notin {"idle", "returned"}}

(* C17: a browser-based adapter call that has returned has left no page  *)
(* open, and with no adapter call in progress no page is open.           *)
C17_PagesClosedOnEveryExit ==
  program = "adapters" =>
    /\ \A pg \in pages : pg.owner \in AdapterCallsInProgress
    /\ AdapterCallsInProgress = {} => pages = {}

----------------------------------------------------------------------------
(* C18 *)

(* the rows of the table that have a GHI of source S and lie inside the *)
(* lookback window at time t                                            *)
WindowRows(S, t) ==
  {i \in DOMAIN rows : /\ ColMap(S).ghi \in DOMAIN rows[i]
                       /\ rows[i].scraping_timestamp >= t - LookbackMs}

(* the sum of the GHI values of source S over the rows I *)
GhiSum(S, I) == SetSum([i \in I |-> rows[i][ColMap(S).ghi]], I)

(* a is the mean of n values with sum s, rounded down to the unit *)
IsMean(a, s, n) == a * n <= s /\ s < (a + 1) * n

(* a source endpoint answers in this step *)
SourceAnswered == answer' # answer /\ answer'[1].endpoint \in SourceKeys

(* C18 as stated: whatever the rows are, the answer of a source endpoint *)
(* has avg_ghi equal to the mean of the non-null GHI values of that      *)
(* source in the window; for an empty window it is a success with        *)
(* avg_ghi = 0, avg_pv_output = 0, total_records = 0, last_update null.  *)
C18_AverageOfPersistedRows ==
  SourceAnswered =>
    LET S == answer'[1].endpoint
        r == answer'[1].response
        I == WindowRows(S, now)
    IN /\ r.status = 200 /\ r.success
       /\ I # {} => IsMean(r.data.avg_ghi, GhiSum(S, I), Cardinality(I))
       /\ I = {} => /\ r.data.avg_ghi = 0
                    /\ "avg_pv_output" \in DOMAIN r.data
                    /\ r.data.avg_pv_output = 0
                    /\ r.data.total_records = 0
                    /\ r.data.last_update = Undefined

C18_AverageOfRowsRead ==
  (SourceAnswered /\ answer'[1].storeUp) =>
    LET S == answer'[1].endpoint
        r == answer'[1].response
        I == WindowRows(S, now)
    IN /\ r.status = 200 /\ r.success
       /\ r.data.total_records = Cardinality(I)
       /\ I # {} => IsMean(r.data.avg_ghi, GhiSum(S, I), Cardinality(I))
       /\ I = {} => /\ r.data.avg_ghi = 0
                    /\ r.data.last_update = Undefined
                    /\ S \in {"gsa", "pvgis"} => r.data.avg_pv_output = 0

----------------------------------------------------------------------------
(* C19 *)

(* the key of source S in data_sources of a reading *)
SourceField(S) == IF S = "gsa" THEN "globalsolaratlas" ELSE S

(* the element of the series of source S that reproduces a reading: its *)
(* scraping_timestamp and its metrics of S as they were inserted        *)
InsertedPoint(S, reading) ==
  LET d == reading.data_sources[SourceField(S)].data
      keys == {OutKeys[m] : m \in DOMAIN ColMap(S)} \cap DOMAIN d
  IN [k \in {"timestamp"} \cup keys |->
        IF k = "timestamp" THEN reading.scraping_timestamp ELSE d[k]]

(* the rows written by saveToPostgreSQL whose reading has a GHI of source *)
(* S and a timestamp inside the lookback window at time t                 *)
InsertedInWindow(S, t) ==
  {i \in DOMAIN rows :
     /\ "raw_json" \in DOMAIN rows[i]
     /\ "ghi" \in DOMAIN rows[i].raw_json.data_sources[SourceField(S)].data
     /\ rows[i].raw_json.scraping_timestamp >= t - LookbackMs}

(* C19: when the query layer reads the series of source S, every reading *)
(* the writer inserted with a GHI of S and a timestamp in the window     *)
(* appears in it exactly once (as often as it was inserted), at its own  *)
(* scraping_timestamp and with the inserted value of every metric of S,  *)
(* and the series is in ascending order of timestamp.                    *)
C19_SeriesReproducesInserted ==
  (SourceAnswered /\ answer'[1].storeUp) =>
    LET S == answer'[1].endpoint
        series == answer'[1].response.data.hourly_data
        W == InsertedInWindow(S, now)
    IN /\ \A i \in W :
            Cardinality({j \in DOMAIN series :
                           series[j] = InsertedPoint(S, rows[i].raw_json)})
              = Cardinality({k \in W : InsertedPoint(S, rows[k].raw_json)
                                         = InsertedPoint(S, rows[i].raw_json)})
       /\ \A j \in DOMAIN series, k \in DOMAIN series :
            j < k => series[j].timestamp <= series[k].timestamp

C19_RoundTrip == [][C19_SeriesReproducesInserted]_vars

----------------------------------------------------------------------------
(* C20 *)

(* C20: every answer of a read endpoint of part_001 (health, database    *)
(* stats, the three source endpoints) is a non-error response, also when *)
(* the store did not answer the query: status 200 with success = true.   *)
C20_ReadEndpointsNeverFail ==
  answer # <<>> =>
    /\ answer[1].response.status = 200
    /\ answer[1].response.success = TRUE

----------------------------------------------------------------------------
(* C21 *)

(* coordinates rounded to 4 decimal digits *)
RoundedKey(coords) == <<ToFixed(coords.lat, 4), ToFixed(coords.lng, 4)>>

(* when the reading under key k of the cache was stored *)
EntryStoredAt(k) ==
  IF program = "server" THEN scrapingCache[k].timestamp
  ELSE scrapedDataCache[k].scraping_timestamp

(* the keys of the cache whose reading is younger than one hour and was *)
(* acquired for coordinates that round to those of coords               *)
FreshEntriesFor(coords) ==
  {k \in DOMAIN CachedReadings :
     /\ RoundedKey(CachedReadings[k].coordinates) = RoundedKey(coords)
     /\ now - EntryStoredAt(k) < HourMs}

(* C21: a call of a cached entry point made while the cache holds a     *)
(* reading younger than one hour for coordinates that agree with the    *)
(* call's after rounding to 4 decimals is a cache hit, whatever the     *)
(* location names are: it invokes no adapter and is answered with that  *)
(* reading.                                                             *)
C21_CallHitsRoundedKey ==
  program \in {"server", "auto"} =>
    \A q \in DOMAIN cur :
      (/\ cur[q] = NoAcquisition
       /\ cur'[q] # NoAcquisition
       /\ program = "auto" => ~cur'[q].force /\ ~cur'[q].inFlight
       /\ FreshEntriesFor(cur'[q].coordinates) # {})
      => /\ ~cur'[q].invoked
         /\ \E k \in FreshEntriesFor(cur'[q].coordinates) :
              resp'[q] = Some(IF program = "server"
                                THEN ScrapeLocationResponse(CachedReadings[k])
                              ELSE AutoScrapeResponse(CachedReadings[k]))

C21_KeyedByRoundedCoordinates == [][C21_CallHitsRoundedKey]_vars

----------------------------------------------------------------------------
(* C22 *)

(* the acquisition cache and the in-flight tracking of the running back end *)
TheCache == IF program = "server" THEN scrapingCache ELSE scrapedDataCache
InFlightTracking ==
  IF program = "server" THEN activeScraping ELSE DOMAIN currentScrapingTasks

(* POST /api/clear-cache answers in this step *)
CacheCleared == answer' # answer /\ answer'[1].endpoint = "clear-cache"

(* C22: POST /api/clear-cache without a location empties the cache and  *)
(* reports in cleared_items the number of entries the cache held just   *)
(* before the call; with a location it removes that key's entry only    *)
(* and leaves the other entries and the in-flight tracking unchanged.   *)
C22_ClearCacheEffect ==
  (program \in {"server", "auto"} /\ CacheCleared) =>
    IF answer'[1].location = Undefined
      THEN /\ TheCache' = <<>>
           /\ answer'[1].response.cleared_items = Some(Cardinality(DOMAIN TheCache))
      ELSE /\ TheCache' = MapDelete(TheCache, answer'[1].location[1])
           /\ InFlightTracking' = InFlightTracking

C22_ClearCacheCounts == [][C22_ClearCacheEffect]_vars

----------------------------------------------------------------------------
(* C23 *)

(* C23: the series a source endpoint returns for a request with lookback *)
(* parameter limit (default 48) holds rows of the last limit hours only. *)
C23_SeriesWithinRequestedWindow ==
  (SourceAnswered /\ answer'[1].storeUp) =>
    LET series == answer'[1].response.data.hourly_data
        limit == ParseLimit(answer'[1].limit)
    IN \A j \in DOMAIN series : series[j].timestamp >= now - limit * HourMs

C23_LimitDeterminesWindow == [][C23_SeriesWithinRequestedWindow]_vars

----------------------------------------------------------------------------
(* C24 *)

(* the call q made in this step is answered from the cache *)
AnsweredFromCache(q) ==
  /\ cur[q] = NoAcquisition
  /\ cur'[q] # NoAcquisition
  /\ ~cur'[q].invoked
  /\ program = "auto" => ~cur'[q].inFlight

(* C24: a reading a caller obtains from the acquisition cache has been *)
(* written by the persistence write before: its write is neither      *)
(* pending nor failed.                                                 *)
C24_CachedReadingIsPersisted ==
  program \in {"server", "auto"} =>
    \A q \in DOMAIN cur :
      AnsweredFromCache(q) =>
        (IF program = "server" THEN cur'[q].cached[1].data ELSE cur'[q].cached[1])
          \in Range(files)

C24_CacheAfterPersistence == [][C24_CachedReadingIsPersisted]_vars

----------------------------------------------------------------------------
(* C25 *)

(* a scheduled run has acquired the roster entries before its current *)
(* one, each once and in roster order, its acquisition in progress is *)
(* for the current entry, and it ends with the whole roster acquired  *)
C25_RosterInOrder ==
  \A p \in ScheduledRuns :
    /\ visited[p] = [i \in 1..Len(visited[p]) |-> i]
    /\ Len(visited[p]) <= idx[p] /\ idx[p] <= Len(visited[p]) + 1
    /\ pc[p] \in {"probe", "save"} =>
         /\ Len(visited[p]) = idx[p] - 1
         /\ cur[p].coordinates = [lat |-> Roster[idx[p]].lat, lng |-> Roster[idx[p]].lng]
         /\ cur[p].locationName = Roster[idx[p]].name
    /\ pc[p] = "done" => visited[p] = [i \in 1..Len(Roster) |-> i]

(* a scheduled run starts the acquisition of the next roster entry only *)
(* from its start or after the previous acquisition has returned and    *)
(* the inter-location delay has elapsed                                 *)
C25_NextAfterDelay ==
  \A p \in ScheduledRuns :
    idx'[p] # idx[p] =>
      /\ idx'[p] = idx[p] + 1
      /\ pc'[p] = "probe"
      /\ IF idx[p] = 0 THEN pc[p] = "idle"
         ELSE pc[p] = "wait" /\ visited[p][Len(visited[p])] = idx[p]

(* a started scheduled run reaches the end of the roster, unless the *)
(* bound on acquisitions stops it between two locations              *)
C25_RunReachesEnd ==
  \A p \in {q \in DbTasks : IsRun(q)} :
    (pc[p] \notin {"idle", "done"})
      ~> (pc[p] = "done" \/ (pc[p] = "wait" /\ started >= MaxAcquisitions))

(* C25: each scheduled run, hourly or warm-up, invokes the acquisition    *)
(* once for every roster location, in roster order, starts the next      *)
(* location only after the previous acquisition and the inter-location   *)
(* delay have finished, and eventually reaches the end of the roster     *)
(* provided every acquisition returns.                                   *)
C25_SequentialRosterRun ==
  /\ []C25_RosterInOrder
  /\ [][C25_NextAfterDelay]_vars
  /\ C25_RunReachesEnd

(* the warm-up run went through the whole roster *)
C25_WarmupFinished ==
  /\ program = "db"
  /\ pc[<<"warmup", 1>>] = "done"
  /\ visited[<<"warmup", 1>>] = [i \in 1..Len(Roster) |-> i]
  /\ Len(Roster) >= 2

----------------------------------------------------------------------------
(* C26 *)

(* C26: in every reading scrapeAllSources of server.js has built, the    *)
(* temperature of the blended weather view is the temperature of the     *)
(* BMKG source whenever that source supplies one (to the rounding of the *)
(* fixed-point mean, less than 3 units of 1e-6).                         *)
C26_BlendedTemperatureIsBmkg ==
  program = "server" =>
    \A p \in DOMAIN cur :
      (cur[p] # NoAcquisition /\ cur[p].result # Undefined) =>
        LET r == cur[p].result[1]
            bmkg == r.data_sources.bmkg
        IN ("data" \in DOMAIN bmkg /\ "temperature" \in DOMAIN bmkg.data) =>
             Abs(r.weather.temperature - bmkg.data.temperature) < 3

----------------------------------------------------------------------------
(* C27 *)

(* res.json of GET /api/scraping-status: the fields on the in-flight *)
(* collection and the cache                                          *)
ScrapingStatusResponse ==
  [ success |-> TRUE,
    active_scraping_tasks |-> Cardinality(InFlightTracking),
    cached_locations |-> Cardinality(DOMAIN TheCache),
    cache_keys |-> DOMAIN TheCache,
    scraping_queue |-> InFlightTracking ]

(* the keys for which an acquisition has started and not yet finished:  *)
(* a call of scrapeAllSources that has not returned (server.js), a call *)
(* of the scraper that has not settled (part_002)                       *)
KeysBeingAcquired ==
  {cur[p].cacheKey :
     p \in {q \in DOMAIN pc :
              pc[q] \in (IF program = "server" THEN {"adapters", "file"}
                         ELSE {"scraping", "force"})}}

(* C27: the in-flight collection GET /api/scraping-status reports holds *)
(* a coordinate key exactly when an acquisition for that key has        *)
(* started and not yet finished, and active_scraping_tasks is 0 only    *)
(* when no acquisition is running.                                      *)
C27_StatusReportsRunningKeys ==
  program \in {"server", "auto"} =>
    /\ ScrapingStatusResponse.scraping_queue = KeysBeingAcquired
    /\ ScrapingStatusResponse.active_scraping_tasks = 0 => KeysBeingAcquired = {}

----------------------------------------------------------------------------
(* C28 *)

(* the readings part_001 has built or stored *)
DbReadings ==
  {cur[p].result[1] :
     p \in {q \in DOMAIN cur : cur[q] # NoAcquisition /\ cur[q].result # Undefined}}
  \cup {r.raw_json : r \in Range(rows)}

(* C28: in part_001 every reading is tagged from the probe of its own   *)
(* acquisition, whatever other acquisitions do to the shared flag:      *)
(* is_online_scrape is the outcome of that probe, and it is false       *)
(* exactly when all three quality tags are offline_estimated.           *)
C28_TaggedFromOwnProbe ==
  program = "db" =>
    /\ \A r \in DbReadings :
         r.is_online_scrape = FALSE
           <=> \A k \in SourceNames : r.data_sources[k].data_quality = "offline_estimated"
    /\ \A p \in DOMAIN cur :
         (cur[p] # NoAcquisition /\ cur[p].result # Undefined) =>
           cur[p].result[1].is_online_scrape = cur[p].probe[1]

(* two acquisitions ran at the same time, the probe of one succeeded  *)
(* and the probe of the other, settling last, failed; both have their *)
(* readings                                                           *)
C28_ProbesDisagreed ==
  /\ program = "db"
  /\ \E p \in DOMAIN cur, q \in DOMAIN cur :
       /\ p # q
       /\ pc[p] = "save" /\ pc[q] = "save"
       /\ cur[p].probe = Some(TRUE)
       /\ cur[q].probe = Some(FALSE)
       /\ isOnline = FALSE

----------------------------------------------------------------------------
(* C29 *)

(* the acquisition autoScrapeForCoordinates started for task p was rejected *)
FailedAcquisition(p) ==
  /\ pc[p] = "done"
  /\ cur[p] # NoAcquisition
  /\ cur[p].invoked /\ ~cur[p].force
  /\ resp[p] = Some(ErrorResponse(500))

(* the callers awaiting the promise task p registered *)
AwaitingCallers(p) ==
  {q \in DOMAIN pc : pc[q] = "joined" /\ cur[q].awaits = Some(p)}

(* task q, not yet called, makes the next call after the acquisition of *)
(* p failed: every request between the two arrived while the            *)
(* acquisition of p was still in flight                                 *)
NextCallAfterFailure(p, q) ==
  /\ FailedAcquisition(p)
  /\ pc[q] = "idle"
  /\ p[2] < q[2]
  /\ \A r \in DOMAIN pc :
       (p[2] < r[2] /\ r[2] < q[2]) =>
         /\ cur[r] # NoAcquisition
         /\ cur[r].cacheKey = cur[p].cacheKey
         /\ cur[r].inFlight
         /\ ~cur[r].invoked \/ cur[r].force

(* the cache holds an entry for the key that a call made now would return *)
FreshlyCached(cacheKey) ==
  /\ MapHas(scrapedDataCache, cacheKey)
  /\ AutoCacheFresh(scrapedDataCache[cacheKey], now)

(* in this step autoScrapeForCoordinates is called for task q with the key *)
CallsAutoScrape(q, cacheKey) ==
  /\ pc[q] = "idle" /\ pc'[q] # "idle"
  /\ cur'[q] # NoAcquisition
  /\ ~cur'[q].force
  /\ cur'[q].cacheKey = cacheKey

(* in this step a new acquisition is started and registered for task q *)
StartsNewAcquisition(q, cacheKey) ==
  /\ pc'[q] = "scraping"
  /\ cur'[q].invoked
  /\ MapHas(currentScrapingTasks', cacheKey)
  /\ currentScrapingTasks'[cacheKey] = q

(* when the acquisition of p is rejected, p and every caller awaiting it *)
(* answer with the failure, the cache is left as it was and the key is   *)
(* no longer in currentScrapingTasks                                     *)
C29_FailureLeavesNoResidue ==
  \A p \in DOMAIN pc :
    (pc[p] = "scraping" /\ pc'[p] = "done" /\ resp'[p] = Some(ErrorResponse(500))) =>
      /\ \A q \in AwaitingCallers(p) :
           pc'[q] = "done" /\ resp'[q] = Some(ErrorResponse(500))
      /\ scrapedDataCache' = scrapedDataCache
      /\ ~MapHas(currentScrapingTasks', cur[p].cacheKey)

(* when an acquisition settles, either way, its key is out of the map *)
C29_SettledKeyLeavesMap ==
  \A p \in DOMAIN pc :
    (pc[p] = "scraping" /\ pc'[p] # "scraping") =>
      ~MapHas(currentScrapingTasks', cur[p].cacheKey)

----------------------------------------------------------------------------
(* C30 *)

(* lat and lng are both given in the body of POST /api/scrape-location *)
(* of part_002 and lie in [-90, 90] and [-180, 180] degrees            *)
CoordinatesPresentInRange(body) ==
  /\ body.lat # Undefined /\ body.lng # Undefined
  /\ -9000000 <= body.lat[1] /\ body.lat[1] <= 9000000
  /\ -18000000 <= body.lng[1] /\ body.lng[1] <= 18000000

(* C30: a manual scrape request is rejected with HTTP 400 only when a  *)
(* coordinate is absent: every request whose lat and lng are both      *)
(* present and within range, lat = 0 or lng = 0 included, is accepted  *)
(* and goes on to the acquisition for its coordinates.                 *)
C30_PresentCoordinatesAccepted ==
  program = "auto" =>
    \A p \in DOMAIN req :
      (req[p] # Undefined /\ CoordinatesPresentInRange(req[p][1])) =>
        /\ cur[p] # NoAcquisition
        /\ ~(resp[p] # Undefined /\ resp[p][1].status = 400)

====
